---- MODULE Spec2Model ----
(***************************************************************************)
(* A model of the Pi-side command pipeline of voice_rover:                 *)
(*   pi/command_queue/queue_manager.py   CommandQueueManager               *)
(*   pi/serial_comm/serial_interface.py  SerialInterface                   *)
(*   pi/main_controller.py               VoiceRoverController              *)
(*   pi/command_parser/parser.py         CommandParser                     *)
(* Each part has its own specification (SpecQueue, SpecSerial, SpecRead,   *)
(* SpecParse, Spec) over the one set of variables; a specification leaves  *)
(* the variables of the components it does not drive unchanged.            *)
(***************************************************************************)
EXTENDS Integers, Sequences, FiniteSets, TLC

VARIABLES
    \* ---- CommandQueueManager
    max_size,       \* self.max_size, the capacity given to the constructor
    queue,          \* self._queue: the entries held by the PriorityQueue
    qhist,          \* history of the calls made on the queue, with their results
    \* ---- SerialInterface
    auto_detect,        \* self._auto_detect
    serial_obj,         \* self._serial: "none", an "open" port or a "closed" one
    connected,          \* self._connected
    reconnect_attempts, \* self._reconnect_attempts
    read_buffer,        \* self._read_buffer
    lock,               \* self._lock: its owner and how often the owner holds it
    stack,              \* per thread: the frames of its call into the transport
    result,             \* per thread: what its last call returned or raised
    \* ---- the serial link and the device behind it
    in_waiting,         \* bytes the port has received and not yet handed out
    dev_line,           \* rest of the line the device is in the middle of sending
    lines_sent,         \* number of lines the device has started
    wire,               \* request lines written to the port, in order
    \* ---- history of the reads on the current connection
    received,           \* every byte the underlying reads returned, in order
    rlog,               \* the read_response calls that took a line off the buffer
    waits,              \* the backoff waits slept since the attempt counter was last 0
    \* ---- VoiceRoverController
    running,            \* self._running
    main_pc,            \* where the main thread is in start() and stop()
    processing_command, \* self._processing_command
    listener_pc,        \* where the wake word thread is in its loop and handler
    commands,           \* the parsed commands the handler has still to process
    handled,            \* the queue and transport calls of the handler, this utterance
    utterances,         \* number of wake word detections so far
    ignored,            \* number of detections that returned at the gate
    stop_sent,          \* per thread: how the STOP send of stop(), or of the utterance
                        \* being handled, ended and what the controller logged for it
    executor_pc,        \* where the command executor thread is in its loop
    \* ---- CommandParser
    parse_pc,           \* whether an utterance has been heard, and parsed
    spoken,             \* the phrases the utterance was made of
    utterance,          \* the text given to parse
    returned,           \* what parse returned
    matched             \* for each command returned, the match it was made for

qvars == <<max_size, queue, qhist>>

svars == <<auto_detect, serial_obj, connected, reconnect_attempts, read_buffer,
           lock, stack, result, in_waiting, dev_line, lines_sent, wire,
           received, rlog, waits>>

cvars == <<running, main_pc, processing_command, listener_pc, commands, handled,
           utterances, ignored, stop_sent, executor_pc>>

pvars == <<parse_pc, spoken, utterance, returned, matched>>

vars == <<qvars, svars, cvars, pvars>>

\* What the actions of one component leave alone.
nonqueue == <<svars, cvars, pvars>>
nonserial == <<qvars, cvars, pvars>>
nonparser == <<qvars, svars, cvars>>

\* Python's None.  Values that may be None are records, so that TLC can
\* compare them.
None == [py |-> "None"]

(***************************************************************************)
(* command_schema.py                                                       *)
(***************************************************************************)
PRIORITY_STOP == 100
PRIORITY_NORMAL == 0

\* Command(command_type, parameters, priority); the parameter map plays no
\* part in queueing or dispatch and is left out.
Command(kind, prio) == [command_type |-> kind, priority |-> prio]

StopCommand == Command("stop", PRIORITY_STOP)

\* The commands callers hand to the queue and to the transport.
Commands ==
    { Command("move_forward", PRIORITY_NORMAL),
      Command("move_backward", PRIORITY_NORMAL),
      StopCommand }

(***************************************************************************)
(* CommandQueueManager (queue_manager.py).  Every method body of the       *)
(* source is a placeholder: the PriorityQueue is created and never         *)
(* touched.  Each operator returns the queue after the call and the value  *)
(* the call returns.                                                       *)
(***************************************************************************)
MaxCapacity == 2     \* capacities 1..MaxCapacity are tried
MaxQueueCalls == 5   \* length of the call history that is explored
MaxTimeout == 2      \* dequeue timeouts 0..MaxTimeout (in ticks) are tried

\* enqueue(command): `return False`, nothing is put.
enqueue(q, cap, command) == [queue |-> q, ret |-> FALSE]

\* dequeue(timeout) with queue.Empty escaping instead of `return None`.
dequeue_raises(q, timeout) == [queue |-> q, ret |-> [py |-> "raise queue.Empty"], waited |-> 0]

\* dequeue(timeout): `return None` at once; no get(), no wait.
dequeue(q, timeout) == [queue |-> q, ret |-> None, waited |-> 0]

\* clear(): `pass`.
clear(q) == q

\* is_empty(): `return True`.
is_empty(q) == TRUE

\* size(): `return 0`.
size(q) == 0

QueueInit ==
    /\ max_size \in 1..MaxCapacity
    /\ queue = <<>>
    /\ qhist = <<>>

\* One call of the history: the operation, its argument, the number of entries
\* the PriorityQueue held when it was called, how long it waited, its result.
QRecord(op, cmd, timeout, waited, ret) ==
    [op |-> op, cmd |-> cmd, timeout |-> timeout, qlen |-> Len(queue),
     waited |-> waited, ret |-> ret]

Enqueue(c) ==
    /\ Len(qhist) < MaxQueueCalls
    /\ LET r == enqueue(queue, max_size, c) IN
        /\ queue' = r.queue
        /\ qhist' = Append(qhist, QRecord("enqueue", c, 0, 0, r.ret))
    /\ UNCHANGED <<max_size, nonqueue>>

Dequeue(timeout) ==
    /\ Len(qhist) < MaxQueueCalls
    /\ LET r == dequeue(queue, timeout) IN
        /\ queue' = r.queue
        /\ qhist' = Append(qhist, QRecord("dequeue", None, timeout, r.waited, r.ret))
    /\ UNCHANGED <<max_size, nonqueue>>

Clear ==
    /\ Len(qhist) < MaxQueueCalls
    /\ queue' = clear(queue)
    /\ qhist' = Append(qhist, QRecord("clear", None, 0, 0, None))
    /\ UNCHANGED <<max_size, nonqueue>>

IsEmpty ==
    /\ Len(qhist) < MaxQueueCalls
    /\ qhist' = Append(qhist, QRecord("is_empty", None, 0, 0, is_empty(queue)))
    /\ UNCHANGED <<max_size, queue, nonqueue>>

Size ==
    /\ Len(qhist) < MaxQueueCalls
    /\ qhist' = Append(qhist, QRecord("size", None, 0, 0, size(queue)))
    /\ UNCHANGED <<max_size, queue, nonqueue>>

QueueNext ==
    \/ \E c \in Commands : Enqueue(c)
    \/ \E t \in 0..MaxTimeout : Dequeue(t)
    \/ Clear
    \/ IsEmpty
    \/ Size

(***************************************************************************)
(* SerialInterface (serial_interface.py).                                  *)
(*                                                                         *)
(* Bytes are modelled by tokens: "{" and "}" are themselves, "m" stands    *)
(* for the bytes of one object member ("k": 1), "1" for a digit, " " for   *)
(* white space, "xFF" for a byte that is not valid UTF-8 and NL for the    *)
(* line terminator b'\n'.                                                  *)
(***************************************************************************)
NL == "\n"

True == [py |-> "True"]
False == [py |-> "False"]
SerialException == [py |-> "raise SerialException"]

\* The main thread, the command executor thread, the wake word thread, and a
\* thread that calls the wake word callback while the listener runs.
Threads == {"main", "dispatcher", "producer", "caller"}

\* The two threads the controller starts.
Workers == {"dispatcher", "producer"}
NoThread == "nobody"

MaxLines == 2        \* response lines the device sends
MaxWire == 1         \* request lines written to the port
MaxAttempts == 1     \* value of _reconnect_attempts up to which _reconnect is called
MaxRetries == 6      \* value of _reconnect_attempts up to which _reconnect is retried
MaxReadTicks == 4    \* read_response timeouts 1..MaxReadTicks, in ticks of 5 ms

\* The lines the device may send (each is followed by NL).
DeviceLines ==
    { <<"{", "}">>,         \* {}            an object
      <<"{", "m", "}">>,    \* {"k": 1}      an object
      <<"1">>,              \* 1             valid JSON, not an object
      <<"}", "{">>,         \* }{            not JSON
      <<" ">>,              \* white space only
      <<"xFF">>,            \* not UTF-8
      <<>> }                \* the empty line

\* ------------------------------------------------------------ byte strings

\* buf.count(b'\n')
CountNewlines(buf) == Cardinality({i \in 1..Len(buf) : buf[i] = NL})

\* b'\n' in buf
HasNewline(buf) == \E i \in 1..Len(buf) : buf[i] = NL

FirstNewline(buf) == CHOOSE i \in 1..Len(buf) : buf[i] = NL /\ \A j \in 1..(i - 1) : buf[j] # NL

\* buf.split(b'\n', 1): the bytes before the first terminator, and those after it.
SplitFirst(buf) ==
    LET i == FirstNewline(buf) IN
    [line |-> SubSeq(buf, 1, i - 1), rest |-> SubSeq(buf, i + 1, Len(buf))]

RECURSIVE Strip(_)
\* str.strip(): leading and trailing white space removed.
Strip(text) ==
    IF text = <<>> THEN text
    ELSE IF Head(text) = " " THEN Strip(Tail(text))
    ELSE IF text[Len(text)] = " " THEN Strip(SubSeq(text, 1, Len(text) - 1))
    ELSE text

\* line.decode('utf-8') raises UnicodeDecodeError
DecodeFails(line) == \E i \in 1..Len(line) : line[i] = "xFF"

\* json.loads(text) returns a dict: "{" members "}" with white space allowed
\* between the tokens.  The members are none or the one member "m".
Compact(text) == SelectSeq(text, LAMBDA b : b # " ")

JsonIsObject(text) == Compact(text) \in { <<"{", "}">>, <<"{", "m", "}">> }

\* json.loads(text) returns a number: a run of digits.
JsonIsNumber(text) == text # <<>> /\ \A i \in 1..Len(text) : text[i] = "1"

JsonDict(text) == [py |-> "dict", members |-> SubSeq(Compact(text), 2, Len(Compact(text)) - 1)]

JsonNumber(text) == [py |-> "int", digits |-> Len(text)]

\* _parse_response without the isinstance(response, dict) test.
ParseResponseAnyJson(line) ==
    IF DecodeFails(line) THEN None
    ELSE LET text == Strip(line) IN
         IF text = <<>> THEN None
         ELSE IF JsonIsObject(text) THEN JsonDict(text)
         ELSE IF JsonIsNumber(text) THEN JsonNumber(text)
         ELSE None

\* _parse_response(line): the dict, or None for an undecodable, empty,
\* non-JSON or non-dict line.
ParseResponse(line) ==
    IF DecodeFails(line) THEN None                  \* UnicodeDecodeError
    ELSE LET text == Strip(line) IN
         IF text = <<>> THEN None                   \* `if not text`
         ELSE IF JsonIsObject(text) THEN JsonDict(text)
         ELSE IF JsonIsNumber(text) THEN None       \* not isinstance(response, dict)
         ELSE None                                  \* JSONDecodeError

\* min(2 ** self._reconnect_attempts, self._max_backoff_seconds)
max_backoff_seconds == 10

\* The backoff without its cap.
WaitTimeUncapped(attempts) == 2 ^ attempts

WaitTime(attempts) ==
    LET p == 2 ^ attempts IN IF p < max_backoff_seconds THEN p ELSE max_backoff_seconds

\* ------------------------------------------------------------ the lock

FreeLock == [owner |-> NoThread, depth |-> 0]

\* No lock at all: acquire() never waits.
CanAcquireAlways(t) == TRUE

\* A re-entrant lock (threading.RLock): the owner may take it again.
CanAcquireReentrant(t) == lock.owner \in {NoThread, t}

\* threading.Lock: acquire() waits while anybody holds the lock, the caller
\* itself included.
CanAcquire(t) == lock.owner = NoThread

Acquired(lk, t) == [owner |-> t, depth |-> lk.depth + 1]

Released(lk) == IF lk.depth <= 1 THEN FreeLock ELSE [lk EXCEPT !.depth = lk.depth - 1]

\* ------------------------------------------------------------ frames

Frame(fn, pc, cmd, blocking, timeout) ==
    [fn |-> fn, pc |-> pc, cmd |-> cmd, blocking |-> blocking, timeout |-> timeout,
     iterations |-> 0, elapsed |-> 0, holds |-> FALSE,
     entry_connected |-> connected,  \* self._connected when the call was made
     reconnects |-> 0]               \* _reconnect() calls made so far by the call

Top(stk) == stk[Len(stk)]
Pop(stk) == SubSeq(stk, 1, Len(stk) - 1)
SetTop(stk, f) == [stk EXCEPT ![Len(stk)] = f]
SetPc(stk, pc) == [stk EXCEPT ![Len(stk)].pc = pc]

At(t, fn, pc) == stack[t] # <<>> /\ Top(stack[t]).fn = fn /\ Top(stack[t]).pc = pc

Returns(val, note) == [kind |-> "return", val |-> val, note |-> note]
\* The exception swallowed: False is returned instead.
RaisesAsFalse(exc) == [kind |-> "return", val |-> False, note |-> "exception"]

Raises(exc) == [kind |-> "raise", val |-> exc, note |-> "exception"]

RECURSIVE Unwind(_, _, _)
\* The top frame of stk ends with res (a return or a raise); the `with
\* self._lock` block it may be in releases the lock.  The caller, if there is
\* one, goes on from where it made the call:
\*   send_command line 115    if not self.connect(): return False
\*   _reconnect   line 256    result = self.connect() ... return result
\*   send_command line 127    if self._reconnect(): return self.send_command(command)
\*                line 129    return False
\*   send_command line 128    return self.send_command(command)
\* An exception raised by the callee is caught at none of these places.
Unwind(stk, lk, res) ==
    LET f == Top(stk)
        lk1 == IF f.holds THEN Released(lk) ELSE lk
        rest == Pop(stk)
        c == Top(rest)
    IN  IF rest = <<>> THEN [stack |-> rest, lock |-> lk1, res |-> res, fn |-> f.fn]
        ELSE IF res.kind = "raise" THEN Unwind(rest, lk1, res)
        ELSE CASE c.pc = "sc_connect_call" ->
                    IF res.val = True
                    THEN [stack |-> SetPc(rest, "sc_write"), lock |-> lk1, res |-> res, fn |-> f.fn]
                    ELSE Unwind(rest, lk1, Returns(False, "connect failed"))
               [] c.pc = "rc_connect_call" -> Unwind(rest, lk1, res)
               [] c.pc = "sc_reconnect_call" ->
                    IF res.val = True
                    THEN [stack |-> Append(SetPc(rest, "sc_recurse"),
                                           Frame("send_command", "acquire", c.cmd, FALSE, 0)),
                          lock |-> lk1, res |-> res, fn |-> f.fn]
                    ELSE Unwind(rest, lk1, Returns(False, "reconnect failed"))
               [] c.pc = "sc_recurse" -> Unwind(rest, lk1, res)

\* Thread t's top frame ends with res.
Finish(t, res) ==
    LET u == Unwind(stack[t], lock, res) IN
    /\ stack' = [stack EXCEPT ![t] = u.stack]
    /\ lock' = u.lock
    /\ result' = IF u.stack = <<>>
                 THEN [result EXCEPT ![t] = [fn |-> u.fn, kind |-> u.res.kind,
                                             val |-> u.res.val, note |-> u.res.note,
                                             connected |-> connected',
                                             line_left |-> HasNewline(read_buffer')]]
                 ELSE result

\* ------------------------------------------------------------ state

NoResult ==
    [fn |-> "none", kind |-> "none", val |-> None, note |-> "none",
     connected |-> FALSE, line_left |-> FALSE]

SerialInit ==
    /\ auto_detect \in BOOLEAN
    /\ serial_obj = "none"
    /\ connected = FALSE
    /\ reconnect_attempts = 0
    /\ read_buffer = <<>>
    /\ lock = FreeLock
    /\ stack = [t \in Threads |-> <<>>]
    /\ result = [t \in Threads |-> NoResult]
    /\ in_waiting = <<>>
    /\ dev_line = <<>>
    /\ lines_sent = 0
    /\ wire = <<>>
    /\ received = <<>>
    /\ rlog = <<>>
    /\ waits = <<>>

objvars == <<auto_detect, serial_obj, connected, reconnect_attempts, read_buffer>>
linkvars == <<in_waiting, dev_line, lines_sent, wire>>
histvars == <<received, rlog, waits>>

\* ------------------------------------------------------------ calls

\* A thread with no call in progress calls connect().
CallConnect(t) ==
    /\ stack[t] = <<>>
    /\ UNCHANGED nonserial
    /\ stack' = [stack EXCEPT ![t] = <<Frame("connect", "acquire", None, FALSE, 0)>>]
    /\ result' = [result EXCEPT ![t] = NoResult]
    /\ UNCHANGED <<objvars, lock, linkvars, histvars>>

CallDisconnect(t) ==
    /\ stack[t] = <<>>
    /\ UNCHANGED nonserial
    /\ stack' = [stack EXCEPT ![t] = <<Frame("disconnect", "acquire", None, FALSE, 0)>>]
    /\ result' = [result EXCEPT ![t] = NoResult]
    /\ UNCHANGED <<objvars, lock, linkvars, histvars>>

CallSendCommand(t, c) ==
    /\ stack[t] = <<>>
    /\ UNCHANGED nonserial
    /\ Len(wire) < MaxWire
    /\ stack' = [stack EXCEPT ![t] = <<Frame("send_command", "acquire", c, FALSE, 0)>>]
    /\ result' = [result EXCEPT ![t] = NoResult]
    /\ UNCHANGED <<objvars, lock, linkvars, histvars>>

\* read_response(blocking, timeout); the timeout is given in ticks of 5 ms.
CallReadResponse(t, blocking, timeout) ==
    /\ stack[t] = <<>>
    /\ UNCHANGED nonserial
    /\ stack' = [stack EXCEPT ![t] =
                    <<Frame("read_response", "acquire", None, blocking, timeout)>>]
    /\ result' = [result EXCEPT ![t] = NoResult]
    /\ UNCHANGED <<objvars, lock, linkvars, histvars>>

\* _reconnect() called from outside send_command (the caller's retry).
CallReconnect(t) ==
    /\ stack[t] = <<>>
    /\ UNCHANGED nonserial
    /\ reconnect_attempts < MaxAttempts
    /\ stack' = [stack EXCEPT ![t] = <<Frame("_reconnect", "rc_sleep", None, FALSE, 0)>>]
    /\ result' = [result EXCEPT ![t] = NoResult]
    /\ UNCHANGED <<objvars, lock, linkvars, histvars>>

\* The caller's retry: _reconnect() has returned false and is called again.
RetryReconnect(t) ==
    /\ stack[t] = <<>>
    /\ UNCHANGED nonserial
    /\ result[t].fn = "_reconnect" /\ result[t].val = False
    /\ reconnect_attempts < MaxRetries
    /\ stack' = [stack EXCEPT ![t] = <<Frame("_reconnect", "rc_sleep", None, FALSE, 0)>>]
    /\ result' = [result EXCEPT ![t] = NoResult]
    /\ UNCHANGED <<objvars, lock, linkvars, histvars>>

\* `with self._lock:` at the head of connect, disconnect, send_command and
\* read_response.
AcquireLock(t) ==
    /\ stack[t] # <<>>
    /\ UNCHANGED nonserial
    /\ Top(stack[t]).pc = "acquire"
    /\ CanAcquire(t)
    /\ lock' = Acquired(lock, t)
    /\ stack' = [stack EXCEPT ![t] =
                    SetTop(@, [Top(@) EXCEPT !.pc = "body", !.holds = TRUE])]
    /\ UNCHANGED <<objvars, result, linkvars, histvars>>

\* ------------------------------------------------------------ connect

\* connect() without line 76: the read buffer is kept when the port is opened.
ConnectBodyKeepsBuffer(t) ==
    /\ At(t, "connect", "body")
    /\ UNCHANGED nonserial
    /\ IF connected /\ serial_obj = "open"
       THEN /\ UNCHANGED <<objvars, linkvars, histvars>>
            /\ Finish(t, Returns(True, "already connected"))
       ELSE \E found \in BOOLEAN, opens \in BOOLEAN :
            IF auto_detect /\ ~found
            THEN /\ UNCHANGED <<objvars, linkvars, histvars>>
                 /\ Finish(t, [Raises(SerialException) EXCEPT !.note = "no port found"])
            ELSE IF opens
            THEN /\ serial_obj' = "open"
                 /\ connected' = TRUE
                 /\ reconnect_attempts' = 0
                 /\ in_waiting' = <<>>
                 /\ received' = <<>> /\ rlog' = <<>> /\ waits' = <<>>
                 /\ UNCHANGED <<auto_detect, read_buffer, dev_line, lines_sent, wire>>
                 /\ Finish(t, Returns(True, "opened"))
            ELSE /\ connected' = FALSE
                 /\ UNCHANGED <<auto_detect, serial_obj, reconnect_attempts, read_buffer,
                                linkvars, histvars>>
                 /\ Finish(t, Returns(False, "open failed"))

\* connect(), lines 53-86.  `found`: _find_serial_port found a port;
\* `opens`: serial.Serial(...) succeeded.
ConnectBody(t) ==
    /\ At(t, "connect", "body")
    /\ UNCHANGED nonserial
    /\ IF connected /\ serial_obj = "open"
       THEN /\ UNCHANGED <<objvars, linkvars, histvars>>
            /\ Finish(t, Returns(True, "already connected"))
       ELSE \E found \in BOOLEAN, opens \in BOOLEAN :
            IF auto_detect /\ ~found
            THEN /\ UNCHANGED <<objvars, linkvars, histvars>>
                 /\ Finish(t, [Raises(SerialException) EXCEPT !.note = "no port found"])
            ELSE IF opens
            THEN /\ serial_obj' = "open"
                 /\ connected' = TRUE
                 /\ reconnect_attempts' = 0
                 /\ read_buffer' = <<>>
                 /\ in_waiting' = <<>>
                 /\ received' = <<>> /\ rlog' = <<>> /\ waits' = <<>>
                 /\ UNCHANGED <<auto_detect, dev_line, lines_sent, wire>>
                 /\ Finish(t, Returns(True, "opened"))
            ELSE /\ connected' = FALSE
                 /\ UNCHANGED <<auto_detect, serial_obj, reconnect_attempts, read_buffer,
                                linkvars, histvars>>
                 /\ Finish(t, Returns(False, "open failed"))

\* disconnect() without line 98: the read buffer is kept.
DisconnectBodyKeepsBuffer(t) ==
    /\ At(t, "disconnect", "body")
    /\ UNCHANGED nonserial
    /\ \E closes \in BOOLEAN :
        /\ serial_obj' = IF serial_obj = "open" /\ closes THEN "closed" ELSE serial_obj
        /\ in_waiting' = IF serial_obj' = "open" THEN in_waiting ELSE <<>>
    /\ connected' = FALSE
    /\ received' = <<>> /\ rlog' = <<>>
    /\ UNCHANGED <<auto_detect, reconnect_attempts, read_buffer, dev_line, lines_sent,
                   wire, waits>>
    /\ Finish(t, Returns(None, "disconnected"))

\* disconnect(), lines 90-98.  `closes`: close() did not raise.
DisconnectBody(t) ==
    /\ At(t, "disconnect", "body")
    /\ UNCHANGED nonserial
    /\ \E closes \in BOOLEAN :
        /\ serial_obj' = IF serial_obj = "open" /\ closes THEN "closed" ELSE serial_obj
        /\ in_waiting' = IF serial_obj' = "open" THEN in_waiting ELSE <<>>
    /\ connected' = FALSE
    /\ read_buffer' = <<>>
    /\ received' = <<>> /\ rlog' = <<>>
    /\ UNCHANGED <<auto_detect, reconnect_attempts, dev_line, lines_sent, wire, waits>>
    /\ Finish(t, Returns(None, "disconnected"))

\* ------------------------------------------------------------ send_command

\* send_command, lines 114-116: `if not self._connected: if not self.connect()`.
SendCheck(t) ==
    /\ At(t, "send_command", "body")
    /\ UNCHANGED nonserial
    /\ stack' = [stack EXCEPT ![t] =
                    IF ~connected
                    THEN Append(SetPc(@, "sc_connect_call"),
                                Frame("connect", "acquire", None, FALSE, 0))
                    ELSE SetPc(@, "sc_write")]
    /\ UNCHANGED <<objvars, lock, result, linkvars, histvars>>

\* What write()/flush() do on the port as it is.
WriteOutcome(outcome) ==
    IF outcome = "ok" /\ serial_obj = "closed" THEN "serial_exception"
    ELSE IF outcome = "ok" /\ serial_obj = "none" THEN "other_exception"
    ELSE outcome

\* send_command, lines 118-132: serialize, write, flush; on SerialException
\* mark the transport disconnected and call _reconnect().
SendWrite(t) ==
    /\ At(t, "send_command", "sc_write")
    /\ UNCHANGED nonserial
    /\ \E outcome \in {"ok", "serial_exception", "other_exception"} :
        LET o == WriteOutcome(outcome) IN
        IF o = "ok"
        THEN /\ wire' = Append(wire, [cmd |-> Top(stack[t]).cmd, by |-> t])
             /\ UNCHANGED <<objvars, in_waiting, dev_line, lines_sent, histvars>>
             /\ Finish(t, Returns(True, "written"))
        ELSE IF o = "serial_exception"
        THEN /\ connected' = FALSE
             /\ stack' = [stack EXCEPT ![t] =
                            Append([SetPc(@, "sc_reconnect_call")
                                        EXCEPT ![1].reconnects = @ + 1],
                                   Frame("_reconnect", "rc_sleep", None, FALSE, 0))]
             /\ UNCHANGED <<auto_detect, serial_obj, reconnect_attempts, read_buffer,
                            lock, result, linkvars, histvars>>
        ELSE /\ UNCHANGED <<objvars, linkvars, histvars>>
             /\ Finish(t, Returns(False, "unexpected error"))

\* _reconnect() without line 254: the attempt is not counted.
ReconnectSleepNoCount(t) ==
    /\ At(t, "_reconnect", "rc_sleep")
    /\ UNCHANGED nonserial
    /\ waits' = Append(waits, WaitTime(reconnect_attempts))
    /\ stack' = [stack EXCEPT ![t] =
                    Append(SetPc(@, "rc_connect_call"),
                           Frame("connect", "acquire", None, FALSE, 0))]
    /\ UNCHANGED <<objvars, lock, result, linkvars, received, rlog>>

\* _reconnect(), lines 251-256: sleep for the backoff wait_time, count the
\* attempt, call connect().
ReconnectSleep(t) ==
    /\ At(t, "_reconnect", "rc_sleep")
    /\ UNCHANGED nonserial
    /\ waits' = Append(waits, WaitTime(reconnect_attempts))
    /\ reconnect_attempts' = reconnect_attempts + 1
    /\ stack' = [stack EXCEPT ![t] =
                    Append(SetPc(@, "rc_connect_call"),
                           Frame("connect", "acquire", None, FALSE, 0))]
    /\ UNCHANGED <<auto_detect, serial_obj, connected, read_buffer, lock, result,
                   linkvars, received, rlog>>

\* ------------------------------------------------------------ read_response

\* read_response, lines 145-148.
ReadCheck(t) ==
    /\ At(t, "read_response", "body")
    /\ UNCHANGED nonserial
    /\ UNCHANGED <<objvars, linkvars, histvars>>
    /\ IF ~connected
       THEN Finish(t, Returns(None, "not connected"))
       ELSE /\ stack' = [stack EXCEPT ![t] = SetPc(@, "rr_poll")]
            /\ UNCHANGED <<lock, result>>

\* self._read_buffer = data: the bytes already buffered are overwritten.
DrainOverwrite(buf, data) == data

\* self._read_buffer += data
Drain(buf, data) == buf \o data

\* What in_waiting/read() do on the port as it is.
ReadOutcome(outcome) ==
    IF outcome = "ok" /\ serial_obj = "closed" THEN "serial_exception"
    ELSE IF outcome = "ok" /\ serial_obj = "none" THEN "other_exception"
    ELSE outcome

\* max_iterations = int(timeout * 100): the whole polls of 10 ms (two ticks)
\* that fit into the timeout.
MaxIterations(timeout) == timeout \div 2

\* What time.sleep(0.01) may take, in ticks: the 10 ms asked for, or longer.
SleepTicks == {2, 4}

\* read_response, lines 150-190: one pass of the polling loop (blocking),
\* from the loop test of line 156 to the sleep of line 168, or the single
\* pass (non-blocking).  `d`: the ticks the sleep of this pass takes.
ReadPoll(t) ==
    /\ At(t, "read_response", "rr_poll")
    /\ UNCHANGED nonserial
    /\ \E outcome \in {"ok", "serial_exception", "other_exception"}, d \in SleepTicks :
        LET f == Top(stack[t])
            o == ReadOutcome(outcome)
            buf == Drain(read_buffer, in_waiting)
            sp == SplitFirst(buf)
        IN
        IF f.blocking /\ ~(f.iterations < MaxIterations(f.timeout))
        THEN /\ UNCHANGED <<objvars, linkvars, histvars>>
             /\ Finish(t, Returns(None, "timeout"))
        ELSE IF o = "serial_exception"
        THEN /\ connected' = FALSE
             /\ UNCHANGED <<auto_detect, serial_obj, reconnect_attempts, read_buffer,
                            linkvars, histvars>>
             /\ Finish(t, Returns(None, "read error"))
        ELSE IF o = "other_exception"
        THEN /\ UNCHANGED <<objvars, linkvars, histvars>>
             /\ Finish(t, Returns(None, "unexpected error"))
        ELSE /\ in_waiting' = <<>>
             /\ received' = received \o in_waiting
             /\ UNCHANGED <<auto_detect, serial_obj, connected, reconnect_attempts,
                            dev_line, lines_sent, wire, waits>>
             /\ IF HasNewline(buf)
                THEN /\ read_buffer' = sp.rest
                     /\ rlog' = Append(rlog, [line |-> sp.line,
                                              ret |-> ParseResponse(sp.line),
                                              lines_in_read |-> CountNewlines(in_waiting),
                                              buffered |-> read_buffer # <<>>,
                                              connected_before |-> connected,
                                              connected_after |-> connected'])
                     /\ Finish(t, Returns(ParseResponse(sp.line), "line"))
                ELSE /\ read_buffer' = buf
                     /\ rlog' = rlog
                     /\ IF ~f.blocking
                        THEN Finish(t, Returns(None, "no data"))
                        ELSE IF f.elapsed >= f.timeout
                        THEN Finish(t, Returns(None, "timeout"))
                        ELSE /\ stack' = [stack EXCEPT ![t] =
                                    SetTop(@, [f EXCEPT !.iterations = @ + 1,
                                                        !.elapsed = @ + d])]
                             /\ UNCHANGED <<lock, result>>

\* ------------------------------------------------------------ the device

\* The device starts a response line: its first byte reaches the port.
DeviceStartsLine(l) ==
    /\ serial_obj = "open"
    /\ UNCHANGED nonserial
    /\ dev_line = <<>>
    /\ lines_sent < MaxLines
    /\ lines_sent' = lines_sent + 1
    /\ in_waiting' = Append(in_waiting, Head(Append(l, NL)))
    /\ dev_line' = Tail(Append(l, NL))
    /\ UNCHANGED <<objvars, lock, stack, result, wire, histvars>>

\* The next byte of the line reaches the port.
DeviceContinuesLine ==
    /\ serial_obj = "open"
    /\ UNCHANGED nonserial
    /\ dev_line # <<>>
    /\ in_waiting' = Append(in_waiting, Head(dev_line))
    /\ dev_line' = Tail(dev_line)
    /\ UNCHANGED <<objvars, lock, stack, result, lines_sent, wire, histvars>>

\* A thread's next step in connect, disconnect, send_command and _reconnect.
SerialStep(t) ==
    \/ CallConnect(t)
    \/ CallDisconnect(t)
    \/ \E c \in Commands : CallSendCommand(t, c)
    \/ CallReconnect(t)
    \/ AcquireLock(t)
    \/ ConnectBody(t)
    \/ DisconnectBody(t)
    \/ SendCheck(t)
    \/ SendWrite(t)
    \/ ReconnectSleep(t)

\* The transport used by two threads to connect, send and disconnect.
SerialNext == \E t \in Workers : SerialStep(t)

\* The thread that reads the responses.
Reader == "dispatcher"

\* The transport used by one thread to connect, read responses and
\* disconnect, and the device sending response lines.
ReadNext ==
    \/ CallConnect(Reader)
    \/ CallDisconnect(Reader)
    \/ \E to \in 1..MaxReadTicks : CallReadResponse(Reader, TRUE, to)
    \/ CallReadResponse(Reader, FALSE, 1)
    \/ AcquireLock(Reader)
    \/ ConnectBody(Reader)
    \/ DisconnectBody(Reader)
    \/ ReadCheck(Reader)
    \/ ReadPoll(Reader)
    \/ \E l \in DeviceLines : DeviceStartsLine(l)
    \/ DeviceContinuesLine

(***************************************************************************)
(* VoiceRoverController (main_controller.py): start() and stop() on the    *)
(* main thread, the wake word thread with the utterance handler            *)
(* _on_wake_word_detected, and the command executor thread.  The threads   *)
(* call the queue and the transport modelled above.                        *)
(***************************************************************************)
MaxCommands == 2      \* commands parsed from one utterance
MaxUtterances == 2    \* wake word detections

\* What parser.parse(text) returns: a list of commands (the empty list
\* stands for None).
ParsedLists == UNION { [1..n -> Commands] : n \in 0..MaxCommands }

\* The test of line 231 always failing.
IsStopNever(cmd) == FALSE

\* cmd.command_type == CommandType.STOP
IsStop(cmd) == cmd.command_type = "stop"

\* One queue or transport call of the handler.
Handled(op, cmd) == [op |-> op, command_type |-> cmd.command_type]

\* The wake word thread, whose loop calls the callback.
Listener == "producer"

\* The threads that call _on_wake_word_detected.
Handlers == {Listener, "caller"}

\* The threads that send a STOP themselves: stop() (line 138) and the callback
\* (line 234).
StopSenders == {"main"} \cup Handlers

\* No STOP send of the thread has ended yet.
NoSend == [outcome |-> "none", records |-> {}]

LogRecord(level, msg) == [level |-> level, msg |-> msg]

\* How a send_command call ended: its return value, or "raise".
Outcome(res) == IF res.kind = "raise" THEN "raise" ELSE res.val.py

\* stop(), lines 136-141: the return value of send_command is not looked at;
\* info is logged unless it raised, and then a warning.
StopLogs(res) ==
    IF res.kind = "raise"
    THEN {LogRecord("warning", "Failed to send STOP command")}
    ELSE {LogRecord("info", "STOP command sent to ESP32")}

\* _on_wake_word_detected, lines 234-237 and 246-247.
HandlerLogs(res) ==
    IF res.kind = "raise"
    THEN {LogRecord("error", "Error processing wake word")}
    ELSE IF res.val = True
    THEN {LogRecord("info", "STOP command sent to ESP32")}
    ELSE {LogRecord("error", "Failed to send STOP command")}

ControllerInit ==
    /\ running = FALSE
    /\ main_pc = "created"
    /\ processing_command = FALSE
    /\ listener_pc = [h \in Handlers |-> "not_started"]
    /\ commands = [h \in Handlers |-> <<>>]
    /\ handled = [h \in Handlers |-> <<>>]
    /\ utterances = 0
    /\ ignored = 0
    /\ stop_sent = [t \in StopSenders |-> NoSend]
    /\ stop_sent = [t \in StopSenders |-> NoSend]
    /\ executor_pc = "not_started"

\* Thread t calls into the transport: into disconnect or connect, or into
\* send_command(cmd).
Call(t, fn, cmd) ==
    /\ stack' = [stack EXCEPT ![t] = <<Frame(fn, "acquire", cmd, FALSE, 0)>>]
    /\ result' = [result EXCEPT ![t] = NoResult]
    /\ UNCHANGED <<objvars, lock, linkvars, histvars>>

\* ------------------------------------------------------------ start, stop

\* start(), line 62: self.serial.connect()
StartConnect ==
    /\ main_pc = "created"
    /\ main_pc' = "start_connect"
    /\ Call("main", "connect", None)
    /\ UNCHANGED <<pvars, qvars, running, processing_command, listener_pc, commands,
                   handled, utterances, ignored, stop_sent, executor_pc>>

\* start(), lines 62-103: connect() has returned; a failed connection is
\* only logged.  `ready`: load_model(), microphone.start() succeeded.  Then
\* `_running` is set and the two threads are started; on an exception stop()
\* is called.
StartThreads ==
    /\ main_pc = "start_connect"
    /\ stack["main"] = <<>>
    /\ \E ready \in BOOLEAN :
        IF ready /\ result["main"].kind = "return"
        THEN /\ running' = TRUE
             /\ listener_pc' = [h \in Handlers |-> "listen"]
             /\ executor_pc' = "test"
             /\ main_pc' = "started"
        ELSE /\ main_pc' = "start_failed"
             /\ UNCHANGED <<running, listener_pc, executor_pc>>
    /\ UNCHANGED <<pvars, qvars, svars, processing_command, commands, handled, utterances, ignored, stop_sent>>

\* stop(), lines 124-134: `_running` is cleared; each join waits for its
\* thread for at most two seconds, so stop() goes on whatever the threads do.
StopBegin ==
    /\ main_pc \in {"created", "started", "start_failed"}
    /\ running' = FALSE
    /\ main_pc' = "stop_send"
    /\ UNCHANGED <<pvars, qvars, svars, processing_command, listener_pc, commands, handled,
                   utterances, ignored, stop_sent, executor_pc>>

\* stop(), lines 137-139: self.serial.send_command(stop_cmd)
StopSend ==
    /\ main_pc = "stop_send"
    /\ main_pc' = "stop_sending"
    /\ Call("main", "send_command", StopCommand)
    /\ UNCHANGED <<pvars, qvars, running, processing_command, listener_pc, commands,
                   handled, utterances, ignored, stop_sent, executor_pc>>

\* stop() with the cleanup skipped unless the STOP was sent.
StopDisconnectOnSuccess ==
    /\ main_pc = "stop_sending"
    /\ stack["main"] = <<>>
    /\ result["main"].val = True
    /\ stop_sent' = [stop_sent EXCEPT
                        !["main"] = [outcome |-> Outcome(result["main"]),
                                     records |-> StopLogs(result["main"])]]
    /\ main_pc' = "stop_disconnecting"
    /\ Call("main", "disconnect", None)
    /\ UNCHANGED <<pvars, qvars, running, processing_command, listener_pc, commands,
                   handled, utterances, ignored, executor_pc>>

\* stop(), lines 139-161: send_command has returned or raised and that is
\* logged; the components are cleaned up; self.serial.disconnect()
StopDisconnect ==
    /\ main_pc = "stop_sending"
    /\ stack["main"] = <<>>
    /\ stop_sent' = [stop_sent EXCEPT
                        !["main"] = [outcome |-> Outcome(result["main"]),
                                     records |-> StopLogs(result["main"])]]
    /\ main_pc' = "stop_disconnecting"
    /\ Call("main", "disconnect", None)
    /\ UNCHANGED <<pvars, qvars, running, processing_command, listener_pc, commands,
                   handled, utterances, ignored, executor_pc>>

\* stop(), line 165
StopDone ==
    /\ main_pc = "stop_disconnecting"
    /\ stack["main"] = <<>>
    /\ main_pc' = "stopped"
    /\ UNCHANGED <<pvars, qvars, svars, running, processing_command, listener_pc, commands,
                   handled, utterances, ignored, stop_sent, executor_pc>>

\* ------------------------------------------------------------ wake word thread

\* _listen_for_wake_word, line 175: `while self._running` fails.
ListenerExit ==
    /\ listener_pc[Listener] = "listen"
    /\ ~running
    /\ listener_pc' = [listener_pc EXCEPT ![Listener] = "exited"]
    /\ UNCHANGED <<pvars, qvars, svars, running, main_pc, processing_command, commands,
                   handled, utterances, ignored, stop_sent, executor_pc>>

\* line 195, `if self._processing_command:` a mutant that never closes the gate
GateNeverClosed == FALSE

\* line 195: `if self._processing_command:` (read under _processing_lock)
GateClosed == processing_command

\* _on_wake_word_detected, lines 194-199: called by the detector from the
\* listener's loop (h the listener) or by any other thread that holds the
\* callback; returns at once if an utterance is being processed.
OnWakeWordDetected(h) ==
    /\ listener_pc[h] = "listen"
    /\ running
    /\ utterances < MaxUtterances
    /\ utterances' = utterances + 1
    /\ IF GateClosed
       THEN /\ ignored' = ignored + 1
            /\ UNCHANGED <<processing_command, listener_pc, handled>>
       ELSE /\ processing_command' = TRUE
            /\ listener_pc' = [listener_pc EXCEPT ![h] = "capture"]
            /\ handled' = [handled EXCEPT ![h] = <<>>]
            /\ UNCHANGED ignored
    /\ UNCHANGED <<pvars, qvars, svars, running, main_pc, commands, stop_sent, executor_pc>>

\* lines 205-209: microphone.capture_audio; `captured`: it did not raise.
CaptureAudio(h) ==
    /\ listener_pc[h] = "capture"
    /\ \E captured \in BOOLEAN :
        listener_pc' = [listener_pc EXCEPT
                            ![h] = IF captured THEN "transcribe" ELSE "finally"]
    /\ UNCHANGED <<pvars, qvars, svars, running, main_pc, processing_command, commands,
                   handled, utterances, ignored, stop_sent, executor_pc>>

\* lines 212-221: transcriber.transcribe raises, or returns no text, or a text.
Transcribe(h) ==
    /\ listener_pc[h] = "transcribe"
    /\ \E outcome \in {"raise", "empty", "text"} :
        listener_pc' = [listener_pc EXCEPT
                            ![h] = IF outcome = "text" THEN "parse" ELSE "finally"]
    /\ UNCHANGED <<pvars, qvars, svars, running, main_pc, processing_command, commands,
                   handled, utterances, ignored, stop_sent, executor_pc>>

\* lines 224-227: commands = self.parser.parse(text); `if not commands: return`
Parse(h) ==
    /\ listener_pc[h] = "parse"
    /\ \E parsed \in ParsedLists :
        /\ commands' = [commands EXCEPT ![h] = parsed]
        /\ listener_pc' = [listener_pc EXCEPT
                            ![h] = IF parsed = <<>> THEN "finally" ELSE "loop"]
    /\ UNCHANGED <<pvars, qvars, svars, running, main_pc, processing_command, handled,
                   utterances, ignored, stop_sent, executor_pc>>

\* The loop staying on a command until the queue takes it.
AfterEnqueueRetry(cmds, ret) == IF ret THEN Tail(cmds) ELSE cmds

\* lines 240-244: `if self.queue.enqueue(cmd): ... else: ...` only chooses
\* what is logged; the for loop goes on with the next command either way.
AfterEnqueue(cmds, ret) == Tail(cmds)

\* lines 230-244: the next command of the loop.  A STOP clears the queue
\* (and is then sent, SendStop); any other command is enqueued.
ProcessCommand(h) ==
    /\ listener_pc[h] = "loop"
    /\ IF commands[h] = <<>>
       THEN /\ listener_pc' = [listener_pc EXCEPT ![h] = "finally"]
            /\ UNCHANGED <<queue, commands, handled>>
       ELSE LET cmd == Head(commands[h]) IN
            IF IsStop(cmd)
            THEN /\ queue' = clear(queue)
                 /\ handled' = [handled EXCEPT
                                    ![h] = Append(@, Handled("clear", cmd))]
                 /\ listener_pc' = [listener_pc EXCEPT ![h] = "send_stop"]
                 /\ UNCHANGED commands
            ELSE /\ queue' = enqueue(queue, max_size, cmd).queue
                 /\ handled' = [handled EXCEPT
                                    ![h] = Append(@, Handled("enqueue", cmd))]
                 /\ commands' = [commands EXCEPT
                        ![h] = AfterEnqueue(@, enqueue(queue, max_size, cmd).ret)]
                 /\ UNCHANGED listener_pc
    /\ UNCHANGED <<pvars, max_size, qhist, svars, running, main_pc, processing_command,
                   utterances, ignored, stop_sent, executor_pc>>

\* line 234: self.serial.send_command(cmd)
SendStop(h) ==
    /\ listener_pc[h] = "send_stop"
    /\ listener_pc' = [listener_pc EXCEPT ![h] = "sending"]
    /\ handled' = [handled EXCEPT
                    ![h] = Append(@, Handled("send_command", Head(commands[h])))]
    /\ Call(h, "send_command", Head(commands[h]))
    /\ UNCHANGED <<pvars, qvars, running, main_pc, processing_command, commands,
                   utterances, ignored, stop_sent, executor_pc>>

\* lines 234-237, 246-247: send_command has returned (its result is logged)
\* or has raised (the handler logs the exception and ends).
SendStopReturned(h) ==
    /\ listener_pc[h] = "sending"
    /\ stack[h] = <<>>
    /\ commands' = [commands EXCEPT ![h] = Tail(@)]
    /\ listener_pc' = [listener_pc EXCEPT
                        ![h] = IF result[h].kind = "return" THEN "loop" ELSE "finally"]
    /\ stop_sent' = [stop_sent EXCEPT
                        ![h] = [outcome |-> Outcome(result[h]),
                                records |-> HandlerLogs(result[h])]]
    /\ UNCHANGED <<pvars, qvars, svars, running, main_pc, processing_command, handled,
                   utterances, ignored, executor_pc>>

\* The callback without its `finally` block: the flag stays set.
FinallyKeepsFlag(h) ==
    /\ listener_pc[h] = "finally"
    /\ listener_pc' = [listener_pc EXCEPT ![h] = "listen"]
    /\ commands' = [commands EXCEPT ![h] = <<>>]
    /\ handled' = [handled EXCEPT ![h] = <<>>]
    /\ stop_sent' = [stop_sent EXCEPT ![h] = NoSend]
    /\ UNCHANGED <<pvars, qvars, svars, running, main_pc, processing_command, utterances,
                   ignored, executor_pc>>

\* lines 248-250: `finally`, the flag is cleared; the callback returns to its
\* caller (the listener is back in its loop) and its locals are gone.
Finally(h) ==
    /\ listener_pc[h] = "finally"
    /\ processing_command' = FALSE
    /\ listener_pc' = [listener_pc EXCEPT ![h] = "listen"]
    /\ commands' = [commands EXCEPT ![h] = <<>>]
    /\ handled' = [handled EXCEPT ![h] = <<>>]
    /\ stop_sent' = [stop_sent EXCEPT ![h] = NoSend]
    /\ UNCHANGED <<pvars, qvars, svars, running, main_pc, utterances, ignored, executor_pc>>

\* A step of the callback _on_wake_word_detected in thread h.
HandlerStep(h) ==
    \/ OnWakeWordDetected(h)
    \/ CaptureAudio(h)
    \/ Transcribe(h)
    \/ Parse(h)
    \/ ProcessCommand(h)
    \/ SendStop(h)
    \/ SendStopReturned(h)
    \/ Finally(h)

\* ------------------------------------------------------------ command executor

\* _command_executor_loop, line 258: `while self._running`
ExecutorTest ==
    /\ executor_pc = "test"
    /\ executor_pc' = IF running THEN "dequeue" ELSE "exited"
    /\ UNCHANGED <<pvars, qvars, svars, running, main_pc, processing_command, listener_pc,
                   commands, handled, utterances, ignored, stop_sent>>

\* lines 261-277: command = self.queue.dequeue(timeout=1.0); `if command:`
\* the command is sent and its response read.
ExecutorDequeue ==
    /\ executor_pc = "dequeue"
    /\ LET r == dequeue(queue, 1) IN
        /\ queue' = r.queue
        /\ IF r.ret = None
           THEN /\ executor_pc' = "sleep"
                /\ UNCHANGED svars
           ELSE /\ executor_pc' = "sending"
                /\ Call("dispatcher", "send_command", r.ret)
    /\ UNCHANGED <<pvars, max_size, qhist, running, main_pc, processing_command, listener_pc,
                   commands, handled, utterances, ignored, stop_sent>>

\* line 283: time.sleep(0.1)
ExecutorSleep ==
    /\ executor_pc = "sleep"
    /\ executor_pc' = "test"
    /\ UNCHANGED <<pvars, qvars, svars, running, main_pc, processing_command, listener_pc,
                   commands, handled, utterances, ignored, stop_sent>>

\* A step of thread t inside the transport.
TransportStep(t) ==
    \/ AcquireLock(t)
    \/ ConnectBody(t)
    \/ DisconnectBody(t)
    \/ SendCheck(t)
    \/ SendWrite(t)
    \/ ReconnectSleep(t)

Next ==
    \/ StartConnect
    \/ StartThreads
    \/ StopBegin
    \/ StopSend
    \/ StopDisconnect
    \/ StopDone
    \/ ListenerExit
    \/ HandlerStep(Listener)
    \/ ExecutorTest
    \/ ExecutorDequeue
    \/ ExecutorSleep
    \/ \E t \in Threads : TransportStep(t)

\* The controller with the callback called from two threads: the listener's
\* loop and a second thread that holds the callback (line 173 hands it out).
GateNext ==
    \/ StartConnect
    \/ StartThreads
    \/ StopBegin
    \/ StopSend
    \/ StopDisconnect
    \/ StopDone
    \/ ListenerExit
    \/ \E h \in Handlers : HandlerStep(h)
    \/ ExecutorTest
    \/ ExecutorDequeue
    \/ ExecutorSleep
    \/ \E t \in Threads : TransportStep(t)

\* The transport used by one thread to connect, disconnect and reconnect,
\* retrying the reconnect while it fails.
ConnectNext ==
    \/ CallConnect(Reader)
    \/ CallDisconnect(Reader)
    \/ CallReconnect(Reader)
    \/ RetryReconnect(Reader)
    \/ AcquireLock(Reader)
    \/ ConnectBody(Reader)
    \/ DisconnectBody(Reader)
    \/ ReconnectSleep(Reader)

\* The transport as the two threads of the controller use it at the same
\* time: the command executor sends a command and reads the response
\* (main_controller.py lines 266-271), the utterance handler sends a STOP
\* (line 234).  The device stays silent, so that a read lasts its timeout.
UrgentNext ==
    \/ CallConnect(Reader)
    \/ \E c \in Commands : CallSendCommand(Reader, c)
    \/ \E to \in 1..MaxReadTicks : CallReadResponse(Reader, TRUE, to)
    \/ CallSendCommand(Listener, StopCommand)
    \/ \E t \in {Reader, Listener} :
            \/ AcquireLock(t)
            \/ SendCheck(t)
            \/ SendWrite(t)
            \/ ReconnectSleep(t)
    \/ ConnectBody(Reader)
    \/ ReadCheck(Reader)
    \/ ReadPoll(Reader)

(***************************************************************************)
(* CommandParser (parser.py).  A text is a string and offsets count from 0 *)
(* as in the source.  The texts parsed here are made of letters, single    *)
(* spaces and commas.  They hold no digit, so the forms of the source that *)
(* need a number never match: the three explicit-angle searches of         *)
(* _parse_segment_commands, the "for N seconds" forms, the explicit        *)
(* "speed N" of _extract_speed, _extract_number (which then returns its    *)
(* default) and _extend_match_for_parameters (which then returns the end   *)
(* it was given).  A regular expression of the source is given by the      *)
(* literal texts it matches when words are one space apart, in the order   *)
(* in which its alternatives are tried.  Numbers are kept as the source    *)
(* writes them.                                                            *)
(***************************************************************************)
MaxPhrases == 2      \* command phrases in one utterance

\* s[i], s[a:b], s[a:]
CharAt(s, i) == SubSeq(s, i + 1, i + 1)
Slice(s, a, b) == SubSeq(s, a + 1, b)
From(s, a) == SubSeq(s, a + 1, Len(s))

Min(a, b) == IF a < b THEN a ELSE b
Max(a, b) == IF a > b THEN a ELSE b

RECURSIVE lstrip(_)
lstrip(s) == IF Len(s) > 0 /\ CharAt(s, 0) = " " THEN lstrip(From(s, 1)) ELSE s

RECURSIVE rstrip(_)
rstrip(s) ==
    IF Len(s) > 0 /\ CharAt(s, Len(s) - 1) = " " THEN rstrip(Slice(s, 0, Len(s) - 1)) ELSE s

\* str.strip()
strip(s) == rstrip(lstrip(s))

RECURSIVE lower(_)
\* str.lower(); the capital letters of the utterances are J and S.
lower(s) ==
    IF Len(s) = 0 THEN s
    ELSE (CASE CharAt(s, 0) = "J" -> "j"
            [] CharAt(s, 0) = "S" -> "s"
            [] OTHER -> CharAt(s, 0)) \o lower(From(s, 1))

\* The literal occurs in s at offset i.
MatchAt(literal, s, i) ==
    i + Len(literal) <= Len(s) /\ Slice(s, i, i + Len(literal)) = literal

NoMatch == [start |-> -1, end |-> -1, group |-> ""]

Found(m) == m.start >= 0

RECURSIVE SearchFrom(_, _, _)
\* The first match of the pattern at offset i or behind it: at the first
\* offset where an alternative matches, the first alternative that does.
SearchFrom(pattern, s, i) ==
    IF i >= Len(s) THEN NoMatch
    ELSE LET hits == {k \in 1..Len(pattern) : MatchAt(pattern[k], s, i)} IN
         IF hits = {} THEN SearchFrom(pattern, s, i + 1)
         ELSE LET k == CHOOSE a \in hits : \A b \in hits : a <= b
              IN  [start |-> i, end |-> i + Len(pattern[k]), group |-> pattern[k]]

\* re.search(pattern, s)
Search(pattern, s) == SearchFrom(pattern, s, 0)

\* \w
IsWordChar(c) == c \notin {"", " ", ","}

\* \b at offset i of s
WordBoundary(s, i) ==
    (i > 0 /\ IsWordChar(CharAt(s, i - 1))) # (i < Len(s) /\ IsWordChar(CharAt(s, i)))

RECURSIVE SearchWordFrom(_, _, _)
SearchWordFrom(phrase, s, i) ==
    IF i + Len(phrase) > Len(s) THEN NoMatch
    ELSE IF MatchAt(phrase, s, i) /\ WordBoundary(s, i) /\ WordBoundary(s, i + Len(phrase))
    THEN [start |-> i, end |-> i + Len(phrase), group |-> phrase]
    ELSE SearchWordFrom(phrase, s, i + 1)

\* re.search(rf"\b{re.escape(phrase)}\b", s)
SearchWord(phrase, s) == SearchWordFrom(phrase, s, 0)

RECURSIVE SplitComma(_)
\* re.split(r",\s*", s)
SplitComma(s) ==
    LET m == Search(<<",">>, s) IN
    IF ~Found(m) THEN <<s>>
    ELSE <<Slice(s, 0, m.start)>> \o SplitComma(lstrip(From(s, m.end)))

RECURSIVE SplitWord(_, _)
\* re.split(rf"\b{re.escape(word)}\b", s)
SplitWord(word, s) ==
    LET m == SearchWord(word, s) IN
    IF ~Found(m) THEN <<s>>
    ELSE <<Slice(s, 0, m.start)>> \o SplitWord(word, From(s, m.end))

\* ------------------------------------------------------------ the tables

DEFAULT_SPEED == "0.4"
DEFAULT_ANGLE == "90.0"
DEFAULT_RADIUS == "0.5"
DEFAULT_SPIN_DURATION == "2.0"
DEFAULT_SPIN_SPEED == "0.5"
DEFAULT_SIDE_LENGTH == "0.5"
DEFAULT_STAR_SIZE == "0.5"
DEFAULT_SEGMENT_LENGTH == "0.3"
DEFAULT_ZIGZAG_ANGLE == "45.0"
DEFAULT_ZIGZAG_REPETITIONS == 4

\* SPEED_MODIFIERS, in the order of the dict.
SPEED_MODIFIERS ==
    << [phrase |-> "fast", value |-> "0.7"],
       [phrase |-> "slow", value |-> "0.2"],
       [phrase |-> "slowly", value |-> "0.2"],
       [phrase |-> "quickly", value |-> "0.7"],
       [phrase |-> "quick", value |-> "0.7"],
       [phrase |-> "rapidly", value |-> "0.8"],
       [phrase |-> "rapid", value |-> "0.8"],
       [phrase |-> "a bit faster", value |-> "0.6"],
       [phrase |-> "a bit slower", value |-> "0.3"],
       [phrase |-> "a bit quicker", value |-> "0.6"],
       [phrase |-> "very fast", value |-> "0.9"],
       [phrase |-> "very slow", value |-> "0.15"],
       [phrase |-> "very quickly", value |-> "0.9"],
       [phrase |-> "very slowly", value |-> "0.15"] >>

\* self._transition_words
TransitionWords == <<"then", "and", "then move", "then turn">>

\* _build_synonym_patterns: for each command type its patterns, in order.
Synonyms ==
    [ move_forward |-> << <<"move forward">>, <<"go forward">>, <<"forward">>,
                          <<"move ahead">>, <<"go ahead">> >>,
      move_backward |-> << <<"move backward">>, <<"go backward">>, <<"backward">>,
                           <<"back up">>, <<"reverse">> >>,
      rotate_clockwise |-> << <<"rotate clockwise">>, <<"turn clockwise">>,
                              <<"spin right">>, <<"rotate right">> >>,
      rotate_counterclockwise |-> << <<"rotate counterclockwise">>,
                                     <<"rotate counter clockwise">>,
                                     <<"turn counterclockwise">>,
                                     <<"turn counter clockwise">>,
                                     <<"spin left">>, <<"rotate left">> >>,
      stop |-> << <<"stop">>, <<"halt">>, <<"emergency stop">>, <<"cease">> >>,
      turn_left |-> << <<"turn left">>, <<"move left">> >>,
      turn_right |-> << <<"turn right">>, <<"move right">> >>,
      move_forward_for_time |-> << <<"move forward for">>, <<"go forward for">> >>,
      move_backward_for_time |-> << <<"move backward for">>, <<"go backward for">> >>,
      make_square |-> << <<"make a square", "make square">>,
                         <<"create a square", "create square">> >>,
      make_circle |-> << <<"make a circle", "make circle">>,
                         <<"create a circle", "create circle">> >>,
      make_star |-> << <<"make a star", "make star">>,
                       <<"create a star", "create star">> >>,
      zigzag |-> << <<"zigzag">>, <<"zig zag">> >>,
      spin |-> << <<"spin">> >>,
      dance |-> << <<"dance">> >> ]

\* The two lists of types _parse_segment_commands goes through, lines 201-204
\* and 215-217.
IntermediateTypes ==
    <<"turn_left", "turn_right", "move_forward_for_time", "move_backward_for_time",
      "make_square", "make_circle", "make_star", "zigzag", "spin", "dance">>

PrimitiveTypes ==
    <<"move_forward", "move_backward", "rotate_clockwise", "rotate_counterclockwise",
      "stop">>

\* A Command that is given the normal priority whatever is asked for.
ParsedCommandNormal(kind, parameters, priority) ==
    [command_type |-> kind, parameters |-> parameters, priority |-> PRIORITY_NORMAL]

\* Command(command_type, parameters, priority) as the parser builds it.
ParsedCommand(kind, parameters, priority) ==
    [command_type |-> kind, parameters |-> parameters, priority |-> priority]

\* The parameter map {}.
NoParameters == [key \in {} |-> ""]

\* ------------------------------------------------------------ parameters

\* _matches_pattern(text, command_type)
MatchesPattern(text, command_type) ==
    \E k \in 1..Len(Synonyms[command_type]) : Found(Search(Synonyms[command_type][k], text))

RECURSIVE InsertByLength(_, _)
\* The place of one modifier among those already sorted: behind every one
\* that is at least as long (the sort is stable).
InsertByLength(sorted, item) ==
    IF sorted = <<>> THEN <<item>>
    ELSE IF Len(Head(sorted).phrase) >= Len(item.phrase)
    THEN <<Head(sorted)>> \o InsertByLength(Tail(sorted), item)
    ELSE <<item>> \o sorted

RECURSIVE SortedByLength(_)
\* sorted(SPEED_MODIFIERS.items(), key=lambda x: len(x[0]), reverse=True)
SortedByLength(items) ==
    IF items = <<>> THEN <<>>
    ELSE InsertByLength(SortedByLength(SubSeq(items, 1, Len(items) - 1)),
                        items[Len(items)])

sorted_modifiers == SortedByLength(SPEED_MODIFIERS)

RECURSIVE FirstModifier(_, _, _)
FirstModifier(modifiers, text, default) ==
    IF modifiers = <<>> THEN default
    ELSE IF Found(SearchWord(Head(modifiers).phrase, text)) THEN Head(modifiers).value
    ELSE FirstModifier(Tail(modifiers), text, default)

\* _extract_speed(text, default): the value of the longest modifier phrase
\* the text holds.
ExtractSpeed(text, default) == FirstModifier(sorted_modifiers, text, default)

\* _extend_match_for_parameters(text, end_pos)
ExtendMatchForParameters(text, end_pos) == end_pos

\* _extract_command_with_modifier(text, start, end): the match with up to 12
\* characters on either side; whether a modifier is found in it (lines 519-533)
\* changes nothing of what is returned.
ExtractCommandWithModifier(text, start, end) ==
    LET extended_end == ExtendMatchForParameters(text, end) IN
    Slice(text, Max(0, start - 12), Min(Len(text), extended_end + 12))

\* _extract_number(text, keyword, default)
ExtractNumber(text, keyword, default) == default

\* ------------------------------------------------------------ one command

\* _parse_primitive with a speed in the parameters of STOP as well.
ParsePrimitiveAllWithSpeed(text) ==
    LET speed == ExtractSpeed(text, DEFAULT_SPEED) IN
    IF MatchesPattern(text, "move_forward")
    THEN ParsedCommand("move_forward", [speed |-> speed], PRIORITY_NORMAL)
    ELSE IF MatchesPattern(text, "move_backward")
    THEN ParsedCommand("move_backward", [speed |-> speed], PRIORITY_NORMAL)
    ELSE IF MatchesPattern(text, "rotate_clockwise")
    THEN ParsedCommand("rotate_clockwise", [speed |-> speed], PRIORITY_NORMAL)
    ELSE IF MatchesPattern(text, "rotate_counterclockwise")
    THEN ParsedCommand("rotate_counterclockwise", [speed |-> speed], PRIORITY_NORMAL)
    ELSE IF MatchesPattern(text, "stop")
    THEN ParsedCommand("stop", [speed |-> speed], PRIORITY_STOP)
    ELSE None

\* _parse_primitive(text)
ParsePrimitive(text) ==
    LET speed == ExtractSpeed(text, DEFAULT_SPEED) IN
    IF MatchesPattern(text, "move_forward")
    THEN ParsedCommand("move_forward", [speed |-> speed], PRIORITY_NORMAL)
    ELSE IF MatchesPattern(text, "move_backward")
    THEN ParsedCommand("move_backward", [speed |-> speed], PRIORITY_NORMAL)
    ELSE IF MatchesPattern(text, "rotate_clockwise")
    THEN ParsedCommand("rotate_clockwise", [speed |-> speed], PRIORITY_NORMAL)
    ELSE IF MatchesPattern(text, "rotate_counterclockwise")
    THEN ParsedCommand("rotate_counterclockwise", [speed |-> speed], PRIORITY_NORMAL)
    ELSE IF MatchesPattern(text, "stop")
    THEN ParsedCommand("stop", NoParameters, PRIORITY_STOP)
    ELSE None

\* The direction of a circle, lines 404-407.
CircleDirection(text) ==
    LET direction_match == Search(<<"left", "right", "counterclockwise", "clockwise">>, text)
    IN  IF Found(direction_match) /\ direction_match.group \in {"right", "clockwise"}
        THEN "right" ELSE "left"

\* _parse_intermediate(text).  The two "for N seconds" forms (lines 370-392)
\* need a number and are passed over.
ParseIntermediate(text) ==
    LET speed == ExtractSpeed(text, DEFAULT_SPEED) IN
    IF Found(Search(<<"turn left", "move left">>, text))
    THEN ParsedCommand("turn_left", [angle |-> DEFAULT_ANGLE, speed |-> speed],
                       PRIORITY_NORMAL)
    ELSE IF Found(Search(<<"turn right", "move right">>, text))
    THEN ParsedCommand("turn_right", [angle |-> DEFAULT_ANGLE, speed |-> speed],
                       PRIORITY_NORMAL)
    ELSE IF MatchesPattern(text, "make_square")
    THEN ParsedCommand("make_square",
                       [side_length |-> ExtractNumber(text, "side", DEFAULT_SIDE_LENGTH),
                        speed |-> speed], PRIORITY_NORMAL)
    ELSE IF MatchesPattern(text, "make_circle")
    THEN ParsedCommand("make_circle",
                       [radius |-> ExtractNumber(text, "radius", DEFAULT_RADIUS),
                        speed |-> speed,
                        direction |-> CircleDirection(text)], PRIORITY_NORMAL)
    ELSE IF MatchesPattern(text, "make_star")
    THEN ParsedCommand("make_star",
                       [size |-> ExtractNumber(text, "size", DEFAULT_STAR_SIZE),
                        speed |-> speed], PRIORITY_NORMAL)
    ELSE IF MatchesPattern(text, "zigzag")
    THEN ParsedCommand("zigzag",
                       [segment_length |-> ExtractNumber(text, "segment", DEFAULT_SEGMENT_LENGTH),
                        angle |-> ExtractNumber(text, "angle", DEFAULT_ZIGZAG_ANGLE),
                        repetitions |-> ExtractNumber(text, "repetitions",
                                                      DEFAULT_ZIGZAG_REPETITIONS),
                        speed |-> speed], PRIORITY_NORMAL)
    ELSE IF MatchesPattern(text, "spin")
    THEN ParsedCommand("spin",
                       [duration |-> DEFAULT_SPIN_DURATION,
                        speed |-> ExtractSpeed(text, DEFAULT_SPIN_SPEED)], PRIORITY_NORMAL)
    ELSE IF MatchesPattern(text, "dance")
    THEN ParsedCommand("dance", NoParameters, PRIORITY_NORMAL)
    ELSE None

\* ------------------------------------------------------------ one segment

RECURSIVE Candidates(_)
\* The patterns of the given types, in the order the loops try them.
Candidates(types) ==
    IF types = <<>> THEN <<>>
    ELSE [k \in 1..Len(Synonyms[Head(types)]) |->
             [cmd_type |-> Head(types), pattern |-> Synonyms[Head(types)][k]]]
         \o Candidates(Tail(types))

\* best_match, best_start and best_end before the loops.
NoBest(text) == [cmd_type |-> "none", start |-> Len(text), end |-> 0]

RECURSIVE BestOf(_, _, _, _)
\* One of the two loops over the patterns (lines 205-217 and 219-228): a match
\* replaces the best so far only when it starts before it.
BestOf(candidates, text, best, extend) ==
    IF candidates = <<>> THEN best
    ELSE LET match == Search(Head(candidates).pattern, text)
             better == Found(match) /\ match.start < best.start
             end == IF extend THEN ExtendMatchForParameters(text, match.end)
                    ELSE match.end
         IN  BestOf(Tail(candidates), text,
                    IF better
                    THEN [cmd_type |-> Head(candidates).cmd_type,
                          start |-> match.start, end |-> end]
                    ELSE best,
                    extend)

\* The best match in the remaining text: the left-most one and, among those
\* that start together, the first one tried.
BestMatch(text) ==
    BestOf(Candidates(PrimitiveTypes), text,
           BestOf(Candidates(IntermediateTypes), text, NoBest(text), TRUE),
           FALSE)

\* The type set of lines 247-253.
IsIntermediate(cmd_type) == \E k \in 1..Len(IntermediateTypes) : IntermediateTypes[k] = cmd_type

\* Lines 236-255: the command is parsed again from the match and the text
\* around it.
CommandOfMatch(text, best) ==
    LET command_with_modifier == ExtractCommandWithModifier(text, best.start, best.end)
    IN  IF IsIntermediate(best.cmd_type) THEN ParseIntermediate(command_with_modifier)
        ELSE ParsePrimitive(command_with_modifier)

RECURSIVE ParseSegmentCommands(_)
\* _parse_segment_commands(text).  Each entry holds the command appended and,
\* for the record, the type and the text of the match it was made for.
ParseSegmentCommands(remaining_text) ==
    IF Len(strip(remaining_text)) = 0 THEN <<>>
    ELSE LET best == BestMatch(remaining_text) IN
         IF best.cmd_type = "none" THEN <<>>
         ELSE LET cmd == CommandOfMatch(remaining_text, best)
                  entry == [cmd |-> cmd,
                            cmd_type |-> best.cmd_type,
                            command_text |-> Slice(remaining_text, best.start, best.end)]
              IN  (IF cmd # None THEN <<entry>> ELSE <<>>)
                  \o ParseSegmentCommands(strip(From(remaining_text, best.end)))

\* ------------------------------------------------------------ parse

\* What re.sub removes behind the wake word: \s*,?\s*
AfterWakeWord(s) ==
    LET rest == lstrip(s) IN
    IF MatchAt(",", rest, 0) THEN lstrip(From(rest, 1)) ELSE rest

\* _remove_wake_word(text)
RemoveWakeWord(text) ==
    LET first == IF MatchAt("jarvis", text, 0) THEN AfterWakeWord(From(text, 6)) ELSE text
        second == IF MatchAt("hey ", first, 0) /\ MatchAt("jarvis", lstrip(From(first, 3)), 0)
                  THEN AfterWakeWord(From(lstrip(From(first, 3)), 6))
                  ELSE first
    IN  strip(second)

RECURSIVE StripNonEmpty(_)
\* [p.strip() for p in parts if p.strip()]
StripNonEmpty(parts) ==
    IF parts = <<>> THEN <<>>
    ELSE (IF Len(strip(Head(parts))) > 0 THEN <<strip(Head(parts))>> ELSE <<>>)
         \o StripNonEmpty(Tail(parts))

RECURSIVE SplitOnTransition(_, _)
\* Lines 280-286: the segment is split on the first transition word, in the
\* order of the list, that it holds.
SplitOnTransition(words, segment) ==
    IF words = <<>> THEN <<segment>>
    ELSE IF Found(SearchWord(Head(words), segment))
    THEN StripNonEmpty(SplitWord(Head(words), segment))
    ELSE SplitOnTransition(Tail(words), segment)

RECURSIVE SplitSegments(_)
SplitSegments(segments) ==
    IF segments = <<>> THEN <<>>
    ELSE SplitOnTransition(TransitionWords, Head(segments)) \o SplitSegments(Tail(segments))

\* _split_commands without any split.
SplitCommandsWhole(text) == <<text>>

\* _split_commands(text)
SplitCommands(text) ==
    LET new_segments == SplitSegments(StripNonEmpty(SplitComma(text)))
    IN  IF new_segments # <<>> THEN new_segments ELSE <<text>>

RECURSIVE ExtendCommands(_)
\* Lines 140-150: the commands of the segments, one segment after the other.
ExtendCommands(segments) ==
    IF segments = <<>> THEN <<>>
    ELSE (IF Len(strip(Head(segments))) > 0
          THEN ParseSegmentCommands(strip(Head(segments))) ELSE <<>>)
         \o ExtendCommands(Tail(segments))

\* The entries behind the list parse builds, empty where parse returns early.
ParseEntries(text) ==
    IF Len(strip(text)) = 0 THEN <<>>
    ELSE LET cleaned == RemoveWakeWord(lower(strip(text)))
         IN  IF Len(cleaned) = 0 THEN <<>>
             ELSE ExtendCommands(SplitCommands(cleaned))

\* A Python list.
List(items) == [py |-> "list", items |-> items]

\* parse(text): the list of commands, or None when there is none.
parse(text) ==
    LET entries == ParseEntries(text) IN
    IF entries = <<>> THEN None
    ELSE List([i \in 1..Len(entries) |-> entries[i].cmd])

\* ------------------------------------------------------------ utterances

\* What is said before the commands.
Prefixes == {"", "jarvis ", "jarvis, ", "Jarvis "}

\* Command phrases and the modifiers that may follow one.
CommandPhrases == {"move forward", "turn left", "turn right", "make a circle", "spin", "stop"}
ModifierWords == {"", " fast", " slowly"}

\* What stands between two phrases.
Separators == {" ", ", ", " then "}

\* The utterance a composition stands for.
RECURSIVE TextOf(_, _)
TextOf(phrases, separators) ==
    IF Len(phrases) = 1 THEN phrases[1].command \o phrases[1].modifier
    ELSE phrases[1].command \o phrases[1].modifier \o separators[1]
         \o TextOf(Tail(phrases), Tail(separators))

Phrase == [command : CommandPhrases, modifier : ModifierWords]

\* Command phrases that are said alone: the other kinds of command, and shapes
\* with a size adjective.
LonePhrases ==
    {"move backward", "rotate clockwise", "rotate left", "make a square", "make a star",
     "zigzag", "dance",
     "make a large circle", "make a small square", "make a tiny star", "make a huge circle"}

LonePhrase == [command : LonePhrases, modifier : ModifierWords]

\* The utterances heard: a prefix and up to MaxPhrases phrases, or a prefix and
\* one of the phrases said alone.
Spoken ==
    UNION { [prefix : Prefixes, phrases : [1..n -> Phrase], separators : [1..(n - 1) -> Separators]]
            : n \in 1..MaxPhrases }
    \cup [prefix : Prefixes, phrases : [1..1 -> LonePhrase], separators : [1..0 -> Separators]]

ParserInit ==
    /\ parse_pc = "idle"
    /\ spoken = None
    /\ utterance = ""
    /\ returned = None
    /\ matched = <<>>

\* The matches the commands of the entries were made for.
MatchesOf(entries) ==
    [i \in 1..Len(entries) |->
        [cmd_type |-> entries[i].cmd_type, command_text |-> entries[i].command_text]]

\* An utterance reaches the parser.
Hear ==
    /\ parse_pc = "idle"
    /\ parse_pc' = "heard"
    /\ \E u \in Spoken :
          /\ spoken' = u
          /\ utterance' = u.prefix \o TextOf(u.phrases, u.separators)
    /\ UNCHANGED <<returned, matched, nonparser>>

\* CommandParser.parse(utterance)
ParseUtterance ==
    /\ parse_pc = "heard"
    /\ parse_pc' = "parsed"
    /\ returned' = parse(utterance)
    /\ matched' = MatchesOf(ParseEntries(utterance))
    /\ UNCHANGED <<spoken, utterance, nonparser>>

\* The parser is ready for the next utterance.
NextUtterance ==
    /\ parse_pc = "parsed"
    /\ parse_pc' = "idle"
    /\ spoken' = None
    /\ utterance' = ""
    /\ returned' = None
    /\ matched' = <<>>
    /\ UNCHANGED nonparser

ParseNext ==
    \/ Hear
    \/ ParseUtterance
    \/ NextUtterance

Init == QueueInit /\ SerialInit /\ ControllerInit /\ ParserInit

\* The controller constructs the queue with MAX_QUEUE_SIZE (here the largest
\* capacity modelled) and the transport with the port SERIAL_PORT names.
ControllerStart == Init /\ max_size = MaxCapacity /\ auto_detect = FALSE

Spec == ControllerStart /\ [][Next]_vars

SpecGate == ControllerStart /\ [][GateNext]_vars

\* The steps of the main thread once start() or stop() has been called (the
\* call of stop() itself is the user's).
MainThread ==
    \/ StartConnect
    \/ StartThreads
    \/ StopSend
    \/ StopDisconnect
    \/ StopDone
    \/ TransportStep("main")

\* The steps of the wake word thread: its loop, the callback it runs, and
\* the transport calls the callback makes.
ListenerThread ==
    \/ ListenerExit
    \/ HandlerStep(Listener)
    \/ TransportStep(Listener)

\* The steps of the command executor thread.
ExecutorThread ==
    \/ ExecutorTest
    \/ ExecutorDequeue
    \/ ExecutorSleep
    \/ TransportStep("dispatcher")

\* The controller with every thread scheduled: a thread that can take a step
\* eventually takes one.
SpecLive ==
    /\ ControllerStart
    /\ [][Next]_vars
    /\ WF_vars(MainThread)
    /\ WF_vars(ListenerThread)
    /\ WF_vars(ExecutorThread)

SpecQueue == Init /\ [][QueueNext]_vars

SpecSerial == Init /\ [][SerialNext]_vars

\* SpecSerial with threads that go on: a thread that can take a step takes
\* one, and a thread that can take the lock again and again gets it.
SpecSerialLive ==
    /\ Init
    /\ [][SerialNext]_vars
    /\ \A t \in Workers : WF_vars(SerialStep(t)) /\ SF_vars(AcquireLock(t))

SpecRead == Init /\ [][ReadNext]_vars

SpecConnect == Init /\ [][ConnectNext]_vars

SpecUrgent == Init /\ [][UrgentNext]_vars

SpecParse == ControllerStart /\ [][ParseNext]_vars

(***************************************************************************)
(* The queue contract the claims state, replayed over the call history:    *)
(* the commands that are pending after the first n calls when an enqueue   *)
(* is accepted below capacity, a dequeue takes the highest priority        *)
(* (oldest first among equals) and clear drops everything.                 *)
(***************************************************************************)
RECURSIVE BestIndexFrom(_, _, _)
BestIndexFrom(p, i, best) ==
    IF i > Len(p) THEN best
    ELSE BestIndexFrom(p, i + 1,
            IF p[i].priority > p[best].priority THEN i ELSE best)

\* Index of the entry a dequeue has to return: highest priority, oldest first.
BestIndex(p) == BestIndexFrom(p, 2, 1)

RemoveAt(p, k) == [i \in 1..(Len(p) - 1) |-> IF i < k THEN p[i] ELSE p[i + 1]]

RECURSIVE ContractPending(_, _)
ContractPending(h, n) ==
    IF n = 0 THEN <<>>
    ELSE LET p == ContractPending(h, n - 1)
             r == h[n]
         IN CASE r.op = "enqueue" ->
                    IF Len(p) < max_size THEN Append(p, r.cmd) ELSE p
              [] r.op = "dequeue" ->
                    IF p = <<>> THEN p ELSE RemoveAt(p, BestIndex(p))
              [] r.op = "clear" -> <<>>
              [] OTHER -> p

\* C1: every dequeue made while commands are pending returns the pending
\* command of highest priority, the oldest one among equal priorities (so a
\* STOP enqueued after normal commands comes out before them).
C1_PriorityThenFifo ==
    \A n \in 1..Len(qhist) :
        LET p == ContractPending(qhist, n - 1) IN
        (qhist[n].op = "dequeue" /\ p # <<>>) => qhist[n].ret = p[BestIndex(p)]

\* C3: enqueue returns true exactly when fewer than max_size entries are
\* pending, and a rejected enqueue leaves the stored entries as they were.
C3_CapacityContract ==
    \A n \in 1..Len(qhist) :
        qhist[n].op = "enqueue" =>
            /\ qhist[n].ret = (Len(ContractPending(qhist, n - 1)) < max_size)
            /\ (qhist[n].ret = FALSE =>
                    qhist[n].qlen = (IF n = Len(qhist) THEN Len(queue)
                                     ELSE qhist[n + 1].qlen))

NoEnqueueBetween(i, j) == \A k \in (i + 1)..j : qhist[k].op # "enqueue"

C5_DequeueTimesOut ==
    \A n \in 1..Len(qhist) :
        (qhist[n].op = "dequeue" /\ qhist[n].qlen = 0) =>
            /\ qhist[n].ret = None
            /\ qhist[n].waited = qhist[n].timeout
            /\ (IF n = Len(qhist) THEN Len(queue) ELSE qhist[n + 1].qlen) = 0

(***************************************************************************)
(* The utterance handler (specification Spec).                             *)
(***************************************************************************)

\* C2: the handler never hands a STOP to queue.enqueue; what it sends to the
\* transport is a STOP and the call before it is queue.clear(); and after a
\* queue.clear() its next call is that send_command, nothing in between.
C2_StopBypassesQueue ==
    \A i \in 1..Len(handled[Listener]) :
        /\ handled[Listener][i].op = "enqueue" => handled[Listener][i].command_type # "stop"
        /\ handled[Listener][i].op = "send_command" =>
                /\ handled[Listener][i].command_type = "stop"
                /\ i > 1
                /\ handled[Listener][i - 1].op = "clear"
        /\ handled[Listener][i].op = "clear" =>
                IF i < Len(handled[Listener])
                THEN handled[Listener][i + 1] = [op |-> "send_command", command_type |-> "stop"]
                ELSE listener_pc[Listener] = "send_stop"
                     /\ IsStop(Head(commands[Listener]))

\* "move forward, stop" has been handled: one enqueue, then clear, then the
\* STOP written to the port by the handler's thread.
C2_Witness ==
    /\ handled[Listener] = << [op |-> "enqueue", command_type |-> "move_forward"],
                              [op |-> "clear", command_type |-> "stop"],
                              [op |-> "send_command", command_type |-> "stop"] >>
    /\ listener_pc[Listener] = "loop"
    /\ result[Listener].val = True
    /\ wire # <<>>
    /\ wire[Len(wire)] = [cmd |-> StopCommand, by |-> Listener]

(***************************************************************************)
(* send_command (specification SpecSerial).                                *)
(***************************************************************************)

\* C6: a send_command that finds the transport disconnected performs
\* connect(): the connect() it calls is never left waiting for the lock that
\* the calling send_command holds itself.
C6_SendCommandConnectsFirst ==
    \A t \in Threads :
        ( /\ Len(stack[t]) = 2
          /\ stack[t][1].fn = "send_command" /\ stack[t][1].pc = "sc_connect_call"
          /\ stack[t][2].fn = "connect" /\ stack[t][2].pc = "acquire" )
        => lock.owner # t

RECURSIVE CompleteLines(_)
\* The terminated lines of a byte string, in order, without the terminators.
CompleteLines(bytes) ==
    IF \A i \in 1..Len(bytes) : bytes[i] # "\n" THEN <<>>
    ELSE LET i == CHOOSE k \in 1..Len(bytes) :
                    bytes[k] = "\n" /\ \A j \in 1..(k - 1) : bytes[j] # "\n"
         IN <<SubSeq(bytes, 1, i - 1)>> \o CompleteLines(SubSeq(bytes, i + 1, Len(bytes)))

\* The line is a JSON object: {} or {"k": 1}.
ValidObjectLine(line) == line \in { <<"{", "}">>, <<"{", "m", "}">> }

\* The message a valid line stands for.
MessageOf(line) == [py |-> "dict", members |-> SubSeq(line, 2, Len(line) - 1)]

\* C8: the lines taken off the buffer by successive read_response calls are
\* the complete lines received, in arrival order, each once and each valid
\* one returned as its message; and a read_response that reports no message
\* leaves no complete line behind, so that lines that arrived together in one
\* read need no further bytes to be returned.
C8_LinesReturnedInOrder ==
    LET lines == CompleteLines(received) IN
    /\ Len(rlog) <= Len(lines)
    /\ \A i \in 1..Len(rlog) :
        /\ rlog[i].line = lines[i]
        /\ ValidObjectLine(lines[i]) => rlog[i].ret = MessageOf(lines[i])
    /\ \A t \in Threads :
        (result[t].fn = "read_response" /\ result[t].note \in {"no data", "timeout"})
            => Len(rlog) = Len(lines)

RECURSIVE Joined(_, _)
\* The first n lines taken off the buffer, each with its terminator.
Joined(log, n) ==
    IF n = 0 THEN <<>> ELSE Joined(log, n - 1) \o Append(log[n].line, "\n")

\* C9: the bytes received are, in arrival order, the lines returned so far,
\* each up to its terminator, followed by the read buffer: a line is returned
\* only with its terminator received, and the bytes of a line whose
\* terminator has not arrived are all in the buffer.
C9_PartialLinesStayBuffered ==
    /\ Joined(rlog, Len(rlog)) \o read_buffer = received
    /\ \A i \in 1..Len(rlog) : \A k \in 1..Len(rlog[i].line) : rlog[i].line[k] # "\n"
    /\ \A t \in Threads :
        (result[t].fn = "read_response" /\ result[t].val # None)
            => /\ rlog # <<>>
               /\ result[t].val = MessageOf(rlog[Len(rlog)].line)

\* The line {"k": 1} was returned by the read that brought its terminator,
\* its other bytes being in the buffer from earlier reads; and a later call
\* has returned none with the first byte of the next line, which it leaves
\* in the buffer.
C9_Witness ==
    /\ Len(rlog) = 1
    /\ rlog[1].line = <<"{", "m", "}">>
    /\ rlog[1].buffered /\ rlog[1].lines_in_read = 1
    /\ rlog[1].ret = [py |-> "dict", members |-> <<"m">>]
    /\ result["dispatcher"].fn = "read_response"
    /\ result["dispatcher"].note = "no data"
    /\ read_buffer = <<"{">>

\* C10: a read_response that takes a complete line off the buffer which is
\* not valid JSON, or is JSON but not an object, returns none, leaves the
\* transport connected, and leaves in the buffer only what follows the line.
C10_InvalidLineDiscarded ==
    [][ \A t \in Threads :
          LET buf == read_buffer \o in_waiting
              lines == CompleteLines(buf)
          IN  ( /\ stack[t] # <<>> /\ stack[t][1].fn = "read_response"
                /\ stack'[t] = <<>>
                /\ result'[t].note = "line"
                /\ ~ValidObjectLine(lines[1]) )
              => /\ result'[t].val = None
                 /\ connected /\ connected'
                 /\ Append(lines[1], "\n") \o read_buffer' = buf
      ]_vars

\* The lines 1 (not an object) and }{ (not JSON) were taken off the buffer,
\* none was returned for both, and the transport is still connected.
C10_Witness ==
    /\ Len(rlog) = 2
    /\ rlog[1].line = <<"1">> /\ rlog[1].ret = None
    /\ rlog[2].line = <<"}", "{">> /\ rlog[2].ret = None
    /\ rlog[2].connected_after
    /\ result["dispatcher"].note = "line" /\ result["dispatcher"].val = None
    /\ connected
    /\ read_buffer = <<>>

(***************************************************************************)
(* connect, disconnect and _reconnect (specification SpecConnect).         *)
(***************************************************************************)

\* The backoff the claims state for attempt counter n: 1, 2, 4, 8 seconds
\* and from then on the maximum of 10.
ClaimedBackoff(n) ==
    CASE n = 0 -> 1 [] n = 1 -> 2 [] n = 2 -> 4 [] n = 3 -> 8 [] OTHER -> 10

\* C11: the reconnect made when the attempt counter is n waits
\* min(2^n, 10) seconds: 1, 2, 4, 8 for the counters 0..3, then 10, never more.
C11_BackoffDoublesToCap ==
    /\ Len(waits) = reconnect_attempts
    /\ \A i \in 1..Len(waits) :
        /\ waits[i] = ClaimedBackoff(i - 1)
        /\ waits[i] <= 10

\* Six reconnects in a row have failed.
C11_Witness ==
    /\ waits = <<1, 2, 4, 8, 10, 10>>
    /\ result["dispatcher"].fn = "_reconnect"
    /\ result["dispatcher"].val = False

\* C12: when connect() has returned true the attempt counter is 0 (so that
\* the next reconnect waits the minimum of 1 second).
C12_CounterZeroAfterConnect ==
    \A t \in Threads :
        (result[t].fn = "connect" /\ result[t].val = True) => reconnect_attempts = 0

C14_ConnectFailureModes ==
    \A t \in Threads :
        result[t].fn = "connect" =>
            /\ (result[t].kind = "raise") <=> (result[t].note = "no port found")
            /\ result[t].kind = "raise" => (auto_detect /\ result[t].val = SerialException)
            /\ result[t].kind = "return" => result[t].val \in {True, False}
            /\ result[t].val = False => ~result[t].connected
            /\ result[t].val = True => result[t].connected

\* One thread's connect() failed to open the port and returned false; the
\* other thread's connect() then opened it: the transport is connected.
C14_Witness ==
    /\ result["dispatcher"].fn = "connect"
    /\ result["dispatcher"].val = False /\ result["dispatcher"].note = "open failed"
    /\ result["producer"].fn = "connect"
    /\ result["producer"].val = True /\ result["producer"].note = "opened"
    /\ connected

(***************************************************************************)
(* disconnect and the blocking read (specification SpecRead).              *)
(***************************************************************************)

\* C15: disconnect() returns (it raises nothing) with the transport
\* disconnected and the read buffer empty; called on a transport that is
\* already disconnected with an empty buffer it changes none of that, and on
\* one that has no open port (never connected, or closed) it changes nothing
\* of the transport at all.
C15_DisconnectIdempotent ==
    [][ \A t \in Threads :
          (At(t, "disconnect", "body") /\ stack'[t] = <<>>) =>
            /\ ~connected'
            /\ read_buffer' = <<>>
            /\ result'[t].kind = "return" /\ result'[t].val = None
            /\ (~connected /\ read_buffer = <<>>) =>
                    /\ reconnect_attempts' = reconnect_attempts
                    /\ auto_detect' = auto_detect
                    /\ serial_obj # "open" =>
                            UNCHANGED <<auto_detect, serial_obj, connected,
                                        reconnect_attempts, read_buffer>>
      ]_vars

\* disconnect() has returned on a port it closed while the device was in the
\* middle of a line: disconnected, nothing buffered.
C15_Witness ==
    /\ result["dispatcher"].fn = "disconnect"
    /\ result["dispatcher"].kind = "return"
    /\ serial_obj = "closed"
    /\ lines_sent = 1 /\ dev_line # <<>>
    /\ ~connected
    /\ read_buffer = <<>>

\* C16: a blocking read_response that ends for lack of a complete line has
\* waited for its timeout; it returns none, the transport stays connected,
\* and the bytes received so far stay in the read buffer.
C16_BlockingReadTimesOut ==
    [][ \A t \in Threads :
          ( /\ At(t, "read_response", "rr_poll")
            /\ stack'[t] = <<>>
            /\ result'[t].note = "timeout" )
          => /\ Top(stack[t]).elapsed >= Top(stack[t]).timeout
             /\ result'[t].val = None
             /\ connected /\ connected'
             /\ \E k \in 0..Len(in_waiting) :
                    read_buffer' = read_buffer \o SubSeq(in_waiting, 1, k)
      ]_vars

(***************************************************************************)
(* The queue under concurrent callers (specification SpecQueue).  The      *)
(* calls of the history come from any threads; a call of the queue as it   *)
(* stands is a single statement, so the calls of several threads           *)
(* interleave as whole calls.                                              *)
(***************************************************************************)

\* The calls among the first n of the history that are of operation op.
CallsOf(op, n) == {i \in 1..n : qhist[i].op = op}

\* C17: while only enqueues have been made (by whatever threads) and their
\* number does not exceed the capacity, every enqueue has returned true and
\* size() is the number of enqueues made: none is lost or counted twice.
C17_ConcurrentEnqueuesAllStored ==
    \A n \in 1..Len(qhist) :
        ( /\ CallsOf("dequeue", n) = {} /\ CallsOf("clear", n) = {}
          /\ Cardinality(CallsOf("enqueue", n)) <= max_size )
        => /\ qhist[n].op = "enqueue" => qhist[n].ret = TRUE
           /\ qhist[n].op = "size" => qhist[n].ret = Cardinality(CallsOf("enqueue", n))

\* C18: when n commands (not more than the capacity) have been enqueued and
\* then only dequeues are made (by whatever threads), no command is returned
\* more often than it was enqueued, and once n dequeues have been made every
\* command has been returned as often as it was enqueued.
C18_ConcurrentDequeuesExactlyOnce ==
    LET enq == CallsOf("enqueue", Len(qhist))
        deq == CallsOf("dequeue", Len(qhist))
    IN  ( /\ enq \cup deq = 1..Len(qhist)
          /\ \A i \in enq, j \in deq : i < j
          /\ enq # {}
          /\ Cardinality(enq) <= max_size )
        => \A c \in Commands :
            LET put == Cardinality({i \in enq : qhist[i].cmd = c})
                got == Cardinality({j \in deq : qhist[j].ret = c})
            IN  /\ got <= put
                /\ Cardinality(deq) >= Cardinality(enq) => got = put

(***************************************************************************)
(* The processing gate (specification SpecGate).                           *)
(***************************************************************************)

\* Thread h is inside the callback, past lines 194-199.
PastGate(h) ==
    listener_pc[h] \in {"capture", "transcribe", "parse", "loop", "send_stop",
                        "sending", "finally"}

\* C19: at most one caller of the callback is past the gate at a time, and it
\* holds the flag; a detection that finds the gate closed returns at once:
\* the step changes nothing of the queue, the transport, the flag, or any
\* handler's position, commands or calls.
C19_OneHandlerPastGate ==
    /\ [](/\ Cardinality({h \in Handlers : PastGate(h)}) <= 1
          /\ \A h \in Handlers : PastGate(h) => processing_command)
    /\ [][ignored' # ignored =>
                /\ processing_command
                /\ \E h \in Handlers : PastGate(h)
                /\ UNCHANGED <<qvars, svars, processing_command, listener_pc,
                               commands, handled>>]_vars

\* The listener is enqueuing the commands of one utterance and the second
\* detection, made meanwhile by the other thread, was ignored.
C19_Witness ==
    /\ utterances = 2
    /\ ignored = 1
    /\ listener_pc[Listener] = "loop"
    /\ handled[Listener] # <<>>
    /\ listener_pc["caller"] = "listen"
    /\ handled["caller"] = <<>>

(***************************************************************************)
(* Shutdown (specification SpecLive).                                      *)
(***************************************************************************)

\* stop() has cleared `_running` (line 124) after the threads were started.
StopRequested ==
    /\ ~running
    /\ main_pc \in {"stop_send", "stop_sending", "stop_disconnecting", "stopped"}
    /\ executor_pc # "not_started"

\* C20: once stop() has cleared the running flag, the wake word listener's
\* loop and the command executor's loop both eventually exit.
C20_LoopsExitAfterStop ==
    StopRequested ~> (listener_pc[Listener] = "exited" /\ executor_pc = "exited")

(***************************************************************************)
(* stop() (specification SpecLive).                                        *)
(***************************************************************************)

\* stop() is past line 124.
InStop == main_pc \in {"stop_send", "stop_sending", "stop_disconnecting", "stopped"}

C22_FailedStopLoggedAsError ==
    \A t \in StopSenders :
        stop_sent[t].outcome \in {"False", "raise"} =>
            /\ \E rec \in stop_sent[t].records : rec.level = "error"
            /\ LogRecord("info", "STOP command sent to ESP32") \notin stop_sent[t].records

(***************************************************************************)
(* A command the queue does not take (specification Spec).                 *)
(***************************************************************************)

\* Handler h moves.
HandlerMoves(h) ==
    \/ listener_pc'[h] # listener_pc[h]
    \/ commands'[h] # commands[h]
    \/ handled'[h] # handled[h]

\* C23: when the handler's next command is not a STOP and enqueue returns
\* false for it, the handler's step makes that one enqueue call and nothing
\* else (no transport call, no second call), drops the command, and stays in
\* its loop with the remaining commands of the utterance.
C23_DroppedCommandSkipped ==
    [][\A h \in Handlers :
        ( /\ listener_pc[h] = "loop"
          /\ commands[h] # <<>>
          /\ ~IsStop(Head(commands[h]))
          /\ enqueue(queue, max_size, Head(commands[h])).ret = FALSE
          /\ HandlerMoves(h) )
        => /\ handled'[h] = Append(handled[h], Handled("enqueue", Head(commands[h])))
           /\ commands'[h] = Tail(commands[h])
           /\ listener_pc'[h] = "loop"
           /\ stack'[h] = stack[h]
           /\ processing_command' = processing_command]_vars

\* Two commands of one utterance were handed to enqueue, one call each, the
\* queue took neither, and the handler has reached the end of the list.
C23_Witness ==
    /\ listener_pc[Listener] = "loop"
    /\ Len(handled[Listener]) = 2
    /\ \A i \in 1..2 : handled[Listener][i].op = "enqueue"
    /\ commands[Listener] = <<>>
    /\ size(queue) = 0

(***************************************************************************)
(* The entries of the queue and its size (specification SpecQueue).        *)
(***************************************************************************)

\* The number of entries the PriorityQueue held when call n had returned.
QlenAfter(n) == IF n = Len(qhist) THEN Len(queue) ELSE qhist[n + 1].qlen

BusyWaiting(t) ==
    \/ At(t, "read_response", "rr_poll") /\ Top(stack[t]).blocking
    \/ At(t, "_reconnect", "rc_sleep")

\* C26: when the handler's thread has called send_command(STOP) on the
\* connected transport while the executor's thread is in a blocking
\* read_response or in a reconnect backoff, the send can go on: the lock it
\* needs is free.
C26_StopNeedNotWait ==
    ( /\ stack[Listener] # <<>>
      /\ At(Listener, "send_command", "acquire")
      /\ Top(stack[Listener]).cmd = StopCommand
      /\ connected
      /\ BusyWaiting(Reader) )
    => CanAcquire(Listener)

\* ------------------------------------------------------------ the parser

\* No phrase of the utterance is a STOP.
NoStopSpoken == \A k \in DOMAIN spoken.phrases : spoken.phrases[k].command # "stop"

\* C27: parse returns None for an utterance without the leading wake word that
\* holds only commands other than STOP, and "jarvis move forward" gives one
\* move_forward with the default speed 0.4.
C27_WakeWordRequired ==
    parse_pc = "parsed" =>
        /\ (spoken.prefix = "" /\ NoStopSpoken) => returned = None
        /\ utterance = "jarvis move forward" =>
               returned = List(<<ParsedCommand("move_forward", [speed |-> "0.4"],
                                               PRIORITY_NORMAL)>>)

\* The utterance is the one word "stop" behind any of the prefixes.
OnlyStopSpoken ==
    /\ Len(spoken.phrases) = 1
    /\ spoken.phrases[1] = [command |-> "stop", modifier |-> ""]

\* C28: parsing "stop", with or without a leading wake word, gives exactly one
\* command, of kind STOP, of priority 100 and with an empty parameter map.
C28_StopIsOneStopCommand ==
    (parse_pc = "parsed" /\ OnlyStopSpoken) =>
        /\ returned # None
        /\ Len(returned.items) = 1
        /\ returned.items[1].command_type = "stop"
        /\ returned.items[1].priority = 100
        /\ DOMAIN returned.items[1].parameters = {}

C28_Witness ==
    /\ parse_pc = "parsed"
    /\ utterance = "jarvis, stop"
    /\ returned = List(<<ParsedCommand("stop", NoParameters, PRIORITY_STOP)>>)

\* The kind of command each phrase asks for.
KindSpoken(command) ==
    CASE command = "move forward" -> "move_forward"
      [] command = "turn left" -> "turn_left"
      [] command = "turn right" -> "turn_right"
      [] command = "make a circle" -> "make_circle"
      [] command = "spin" -> "spin"
      [] command = "stop" -> "stop"

\* C29: the list parse returns holds the commands in the order in which their
\* text stands in the utterance, from left to right: no command is returned
\* before one whose text precedes it.
C29_CommandsInSpokenOrder ==
    (parse_pc = "parsed" /\ \A k \in DOMAIN spoken.phrases :
                                spoken.phrases[k].command \in CommandPhrases) =>
        /\ returned # None
        /\ Len(returned.items) = Len(spoken.phrases)
        /\ \A k \in 1..Len(spoken.phrases) :
               returned.items[k].command_type = KindSpoken(spoken.phrases[k].command)

\* The utterance is two phrases in two segments.
TwoSegments ==
    /\ Len(spoken.phrases) = 2
    /\ spoken.separators[1] \in {", ", " then "}

\* The speed of the k-th command returned.
SpeedOf(k) == returned.items[k].parameters.speed

\* C30: a speed modifier in one segment never affects a command of another
\* segment: a command in a segment without a modifier gets the default speed of
\* its kind whatever the other segment holds, and for
\* "jarvis move forward fast, turn right" the speeds are 0.7 and 0.4.
C30_ModifierStaysInItsSegment ==
    (parse_pc = "parsed" /\ TwoSegments) =>
        /\ returned # None
        /\ Len(returned.items) = 2
        /\ \A k \in 1..2 :
               (spoken.phrases[k].modifier = "" /\ spoken.phrases[k].command # "stop") =>
                   SpeedOf(k) = IF spoken.phrases[k].command = "spin" THEN "0.5" ELSE "0.4"
        /\ utterance = "jarvis move forward fast, turn right" =>
               (SpeedOf(1) = "0.7" /\ SpeedOf(2) = "0.4")

C30_Witness ==
    /\ parse_pc = "parsed"
    /\ utterance = "jarvis move forward fast, turn right"
    /\ returned # None
    /\ Len(returned.items) = 2
    /\ SpeedOf(1) = "0.7"
    /\ SpeedOf(2) = "0.4"

\* The speed a modifier word stands for.
SpeedSpoken(modifier) ==
    CASE modifier = " fast" -> "0.7"
      [] modifier = " slowly" -> "0.2"

\* "move forward" and "turn left" in one segment, each followed by a modifier.
ForwardThenLeftBothModified ==
    /\ Len(spoken.phrases) = 2
    /\ spoken.separators[1] = " "
    /\ spoken.phrases[1].command = "move forward"
    /\ spoken.phrases[2].command = "turn left"
    /\ \A k \in 1..2 : spoken.phrases[k].modifier # ""

\* C31: within one segment that holds several commands a speed modifier goes to
\* the command it stands next to and is not claimed by another command: for
\* "jarvis move forward fast turn left slowly" the speeds are 0.7 and 0.2, and
\* with the two modifiers swapped they are 0.2 and 0.7.
C31_ModifierGoesToItsCommand ==
    (parse_pc = "parsed" /\ ForwardThenLeftBothModified) =>
        /\ returned # None
        /\ Len(returned.items) = 2
        /\ \A k \in 1..2 : SpeedOf(k) = SpeedSpoken(spoken.phrases[k].modifier)

\* C32: every command parse produces has priority 100 if its kind is STOP and
\* priority 0 otherwise, so a test on the kind and a test on the priority agree.
C32_PriorityFollowsKind ==
    (parse_pc = "parsed" /\ returned # None) =>
        \A k \in 1..Len(returned.items) :
            /\ returned.items[k].priority =
                   IF returned.items[k].command_type = "stop" THEN 100 ELSE 0
            /\ (returned.items[k].command_type = "stop")
                   <=> (returned.items[k].priority = PRIORITY_STOP)

C32_Witness ==
    /\ parse_pc = "parsed"
    /\ utterance = "jarvis move forward, stop"
    /\ returned # None
    /\ Len(returned.items) = 2
    /\ returned.items[1].command_type = "move_forward"
    /\ returned.items[1].priority = 0
    /\ returned.items[2].command_type = "stop"
    /\ returned.items[2].priority = 100

\* The shape phrases, with and without a size adjective.
ShapePhrases ==
    {"make a circle", "make a square", "make a star",
     "make a large circle", "make a small square", "make a tiny star", "make a huge circle"}

\* The kind of shape a phrase asks for, the parameter that holds its size and
\* the size asked for.
ShapeSpoken(command) ==
    CASE command = "make a circle" -> [kind |-> "make_circle", key |-> "radius", size |-> "0.5"]
      [] command = "make a square" -> [kind |-> "make_square", key |-> "side_length", size |-> "0.5"]
      [] command = "make a star" -> [kind |-> "make_star", key |-> "size", size |-> "0.5"]
      [] command = "make a large circle" ->
             [kind |-> "make_circle", key |-> "radius", size |-> "0.8"]
      [] command = "make a small square" ->
             [kind |-> "make_square", key |-> "side_length", size |-> "0.3"]
      [] command = "make a tiny star" -> [kind |-> "make_star", key |-> "size", size |-> "0.2"]
      [] command = "make a huge circle" ->
             [kind |-> "make_circle", key |-> "radius", size |-> "1.0"]

\* C33: for the shapes square, circle and star a size adjective sets the size
\* parameter (side_length, radius, size) to its magnitude: large 0.8, small 0.3,
\* tiny 0.2, huge 1.0; without an adjective the size is the default 0.5.
C33_SizeAdjectiveSetsSize ==
    (/\ parse_pc = "parsed"
     /\ Len(spoken.phrases) = 1
     /\ spoken.phrases[1].command \in ShapePhrases) =>
        /\ returned # None
        /\ Len(returned.items) = 1
        /\ returned.items[1].command_type = ShapeSpoken(spoken.phrases[1].command).kind
        /\ returned.items[1].parameters[ShapeSpoken(spoken.phrases[1].command).key]
               = ShapeSpoken(spoken.phrases[1].command).size

\* Thread t is inside the `with self._lock` block of connect, send_command,
\* read_response or disconnect.
InBody(t) == \E i \in DOMAIN stack[t] : stack[t][i].holds

InSendCommand(t) == stack[t] # <<>> /\ stack[t][1].fn = "send_command"

\* C38: every call of send_command eventually returns, whether the transport
\* was connected at entry, disconnected at entry, or a write error sent it
\* through the reconnect routine.
C38_SendCommandReturns ==
    \A t \in Workers : InSendCommand(t) ~> (stack[t] = <<>>)

\* C39: whenever a handler that set the processing flag finishes (normal
\* completion, capture or transcription failure, empty text, no commands, or
\* an exception), the flag is false again; while no handler is past the gate
\* the flag is false, so the next detection is processed.
C39_FlagResetWhenHandlerFinishes ==
    /\ []((\A h \in Handlers : ~PastGate(h)) => ~processing_command)
    /\ [][\A h \in Handlers :
            (PastGate(h) /\ listener_pc'[h] = "listen") => ~processing_command']_vars
    /\ [][(ignored' # ignored) => \E h \in Handlers : PastGate(h)]_vars

\* A handler has finished and the detection made after it was processed: its
\* handler is past the gate and no detection was ignored.
C39_Witness ==
    /\ utterances = 2
    /\ ignored = 0
    /\ PastGate(Listener)
    /\ processing_command

\* The bytes seq ends with the bytes tail.
EndsWith(seq, tail) ==
    /\ Len(tail) <= Len(seq)
    /\ SubSeq(seq, Len(seq) - Len(tail) + 1, Len(seq)) = tail

\* C40: bytes buffered during one connection are never returned after it has
\* ended.  A connect() that opens the port and every disconnect() leave the
\* read buffer empty, and a line returned by read_response, with what stays
\* buffered behind it, is made of the last bytes received on the connection
\* the read is made on.
C40_BufferEndsWithConnection ==
    [][ \A t \in Threads :
          /\ (At(t, "connect", "body") /\ stack'[t] = <<>> /\ result'[t].note = "opened")
                => read_buffer' = <<>>
          /\ (At(t, "disconnect", "body") /\ stack'[t] = <<>>)
                => read_buffer' = <<>>
          /\ (At(t, "read_response", "rr_poll") /\ stack'[t] = <<>>
                    /\ result'[t].note = "line")
                => /\ connected
                   /\ EndsWith(received', Append(rlog'[Len(rlog')].line, "\n") \o read_buffer')
      ]_vars

\* The device's one line {} was cut by the end of a connection: its first
\* byte arrived on the connection that has ended and is gone, and the read on
\* the new connection has returned the line made of the rest.
C40_Witness ==
    /\ result[Reader].fn = "read_response" /\ result[Reader].note = "line"
    /\ lines_sent = 1
    /\ Len(rlog) = 1 /\ rlog[1].line = <<"}">>
    /\ received = <<"}", "\n">>
    /\ read_buffer = <<>>

(***************************************************************************)
(* The dispatcher at work.  queue_manager.py holds no queue (every method  *)
(* is a placeholder), so in Spec the command executor never has a command  *)
(* to send.  Here the controller runs with the queue its docstrings and    *)
(* test_queue_manager.py describe: enqueue stores the command while there  *)
(* is room, dequeue returns the pending command of highest priority        *)
(* (oldest first), clear drops every pending command.  The device answers  *)
(* each request line with one response line, in order.                     *)
(***************************************************************************)

\* enqueue(command): "True if successfully enqueued, False if queue is full".
ContractEnqueue(q, cap, command) ==
    IF Len(q) < cap THEN [queue |-> Append(q, command), ret |-> TRUE]
    ELSE [queue |-> q, ret |-> FALSE]

\* dequeue(timeout): "Command if available, None if timeout"; the highest
\* priority first, the oldest among equals.
ContractDequeue(q) ==
    IF q = <<>> THEN [queue |-> q, ret |-> None]
    ELSE [queue |-> RemoveAt(q, BestIndex(q)), ret |-> q[BestIndex(q)]]

\* clear(): "Clear all commands from queue."
ContractClear(q) == <<>>

\* One call of the history kept here: the operation, its command, its result
\* and the number of request lines written to the port when it was made.
DRecord(op, cmd, ret) == [op |-> op, cmd |-> cmd, ret |-> ret, wired |-> Len(wire)]

\* _on_wake_word_detected, lines 230-244, with that queue.
QueuedProcessCommand(h) ==
    /\ listener_pc[h] = "loop"
    /\ IF commands[h] = <<>>
       THEN /\ listener_pc' = [listener_pc EXCEPT ![h] = "finally"]
            /\ UNCHANGED <<queue, qhist, commands, handled>>
       ELSE LET cmd == Head(commands[h]) IN
            IF IsStop(cmd)
            THEN /\ queue' = ContractClear(queue)
                 /\ qhist' = Append(qhist, DRecord("clear", cmd, None))
                 /\ handled' = [handled EXCEPT
                                    ![h] = Append(@, Handled("clear", cmd))]
                 /\ listener_pc' = [listener_pc EXCEPT ![h] = "send_stop"]
                 /\ UNCHANGED commands
            ELSE LET r == ContractEnqueue(queue, max_size, cmd) IN
                 /\ queue' = r.queue
                 /\ qhist' = Append(qhist, DRecord("enqueue", cmd, r.ret))
                 /\ handled' = [handled EXCEPT
                                    ![h] = Append(@, Handled("enqueue", cmd))]
                 /\ commands' = [commands EXCEPT ![h] = AfterEnqueue(@, r.ret)]
                 /\ UNCHANGED listener_pc
    /\ UNCHANGED <<pvars, max_size, svars, running, main_pc, processing_command,
                   utterances, ignored, stop_sent, executor_pc>>

\* The read timeout of the executor, COMMAND_TIMEOUT, in ticks.
CommandTimeoutTicks == MaxReadTicks

\* _command_executor_loop, lines 261-266, with that queue: dequeue; `if
\* command:` self.serial.send_command(command) is called.
QueuedExecutorDequeue ==
    /\ executor_pc = "dequeue"
    /\ LET r == ContractDequeue(queue) IN
        /\ queue' = r.queue
        /\ IF r.ret = None
           THEN /\ executor_pc' = "sleep"
                /\ UNCHANGED <<svars, qhist>>
           ELSE /\ executor_pc' = "sending"
                /\ qhist' = qhist \o <<DRecord("dequeue", r.ret, r.ret),
                                       DRecord("send_command", r.ret, None)>>
                /\ Call("dispatcher", "send_command", r.ret)
    /\ UNCHANGED <<pvars, max_size, running, main_pc, processing_command, listener_pc,
                   commands, handled, utterances, ignored, stop_sent>>

\* The executor sending the command again when send_command returned false.
ExecutorSentRetry ==
    /\ executor_pc = "sending"
    /\ stack["dispatcher"] = <<>>
    /\ IF result["dispatcher"].kind = "return" /\ result["dispatcher"].val = True
       THEN /\ executor_pc' = "reading"
            /\ stack' = [stack EXCEPT !["dispatcher"] =
                            <<Frame("read_response", "acquire", None, TRUE,
                                    CommandTimeoutTicks)>>]
            /\ result' = [result EXCEPT !["dispatcher"] = NoResult]
            /\ UNCHANGED <<objvars, lock, linkvars, histvars, qhist>>
       ELSE LET sent == SelectSeq(qhist, LAMBDA rec : rec.op = "send_command") IN
            /\ executor_pc' = "sending"
            /\ Len(sent) <= MaxQueueCalls
            /\ qhist' = Append(qhist, DRecord("send_command", sent[Len(sent)].cmd, None))
            /\ Call("dispatcher", "send_command", sent[Len(sent)].cmd)
    /\ UNCHANGED <<pvars, max_size, queue, running, main_pc, processing_command,
                   listener_pc, commands, handled, utterances, ignored, stop_sent>>

\* lines 266-280: send_command has returned.  True: the response is read,
\* read_response(blocking=True, timeout=COMMAND_TIMEOUT).  False: an error is
\* logged; an exception is logged by the `except`.  The command is not looked
\* at again.
ExecutorSent ==
    /\ executor_pc = "sending"
    /\ stack["dispatcher"] = <<>>
    /\ IF result["dispatcher"].kind = "return" /\ result["dispatcher"].val = True
       THEN /\ executor_pc' = "reading"
            /\ stack' = [stack EXCEPT !["dispatcher"] =
                            <<Frame("read_response", "acquire", None, TRUE,
                                    CommandTimeoutTicks)>>]
            /\ result' = [result EXCEPT !["dispatcher"] = NoResult]
            /\ UNCHANGED <<objvars, lock, linkvars, histvars>>
       ELSE /\ executor_pc' = "sleep"
            /\ UNCHANGED svars
    /\ UNCHANGED <<pvars, qvars, running, main_pc, processing_command, listener_pc,
                   commands, handled, utterances, ignored, stop_sent>>

\* lines 268-276: read_response has returned; the response, or its absence,
\* is logged.
ExecutorRead ==
    /\ executor_pc = "reading"
    /\ stack["dispatcher"] = <<>>
    /\ executor_pc' = "sleep"
    /\ UNCHANGED <<pvars, qvars, svars, running, main_pc, processing_command, listener_pc,
                   commands, handled, utterances, ignored, stop_sent>>

\* The device answers the next request line it has not answered yet: the
\* first byte of the response line {} reaches the port.
DeviceAnswers ==
    /\ lines_sent < Len(wire)
    /\ DeviceStartsLine(<<"{", "}">>)

MaxHeard == 1    \* utterances handled while the dispatcher is watched

\* The wake word is detected (at most MaxHeard times).
DispatchWakeWord ==
    /\ utterances < MaxHeard
    /\ OnWakeWordDetected(Listener)

\* The threads of the controller that use the transport here.
Dispatching == {"main", Listener, "dispatcher"}

DispatchNext ==
    \/ StartConnect
    \/ StartThreads
    \/ DispatchWakeWord
    \/ CaptureAudio(Listener)
    \/ Transcribe(Listener)
    \/ Parse(Listener)
    \/ QueuedProcessCommand(Listener)
    \/ SendStop(Listener)
    \/ SendStopReturned(Listener)
    \/ Finally(Listener)
    \/ ExecutorTest
    \/ QueuedExecutorDequeue
    \/ ExecutorSent
    \/ ExecutorRead
    \/ ExecutorSleep
    \/ \E t \in Dispatching :
            \/ AcquireLock(t)
            \/ ConnectBody(t)
            \/ SendCheck(t)
            \/ SendWrite(t)
            \/ ReconnectSleep(t)
    \/ ReadCheck("dispatcher")
    \/ ReadPoll("dispatcher")
    \/ DeviceAnswers
    \/ DeviceContinuesLine

SpecDispatch == ControllerStart /\ [][DispatchNext]_vars

(***************************************************************************)
(* The dispatcher and the STOP of the producer path (specification         *)
(* SpecDispatch).                                                          *)
(***************************************************************************)

\* The largest index of seq whose element satisfies Test, 0 if there is none.
LastIndex(seq, Test(_)) ==
    IF \E i \in DOMAIN seq : Test(seq[i])
    THEN CHOOSE i \in DOMAIN seq : Test(seq[i]) /\ \A j \in DOMAIN seq : Test(seq[j]) => j <= i
    ELSE 0

IsDequeue(rec) == rec.op = "dequeue"

ByDispatcher(line) == line.by = "dispatcher"

\* This step writes a request line of the dispatcher to the port.
DispatcherWrites ==
    /\ Len(wire') = Len(wire) + 1
    /\ ByDispatcher(wire'[Len(wire')])

\* A STOP of the producer path is on the wire whose clear() ran after the
\* dispatcher's last dequeue.
StopHandledSinceDequeue ==
    \E c \in DOMAIN qhist :
        /\ qhist[c].op = "clear"
        /\ c > LastIndex(qhist, IsDequeue)
        /\ \E i \in DOMAIN wire :
              /\ i > qhist[c].wired
              /\ wire[i].by = Listener
              /\ IsStop(wire[i].cmd)

DispatcherCalls == SelectSeq(qhist, LAMBDA rec : rec.op \in {"dequeue", "send_command"})

====
